---- MODULE Spec2Model ----
(***************************************************************************)
(* go3mf decoding pipeline: the package-relationship walk (processOPC),    *)
(* the concurrent decode of the auxiliary model parts                      *)
(* (processNonRootModels), the streaming token loop (decodeModelFile) and  *)
(* the synchronous decode of the root part (processRootModel).             *)
(***************************************************************************)
EXTENDS Integers, Sequences, FiniteSets, TLC

VARIABLES
    pkg,            \* the package read by the decoder (d.p): never written
    strict,         \* Decoder.Strict
    dWarnings,      \* Decoder.Warnings
    nonRootModels,  \* Decoder.nonRootModels
    model,          \* *Model: Path, Attachments, relationships, Childs, Resources, Build.Items
    pc,             \* position of the goroutine that runs DecodeContext
    rootFile,       \* the packageFile returned by processOPC
    ret,            \* what DecodeContext returned
    callerDone,     \* the caller's ctx is canceled
    cancelAt,       \* history: where DecodeContext stood when the caller canceled
    derivedDone,    \* cancel() of the context derived in processNonRootModels was called
    err,            \* the named result err of processNonRootModels, shared by the tasks
    files,          \* the sync.Map of processNonRootModels: index -> *Scanner
    task,           \* the goroutines of processNonRootModels: index -> [pc, sc, err1]
    rootSc,         \* the Scanner of processRootModel
    el,             \* the element decoders at work on one model document
    call            \* a call of a library function: its arguments and its results

\* the state of the element decoders and of the library calls
unitVars == <<el, call>>

vars == <<pkg, strict, dWarnings, nonRootModels, model, pc, rootFile, ret,
          callerDone, cancelAt, derivedDone, err, files, task, rootSc, el, call>>

----------------------------------------------------------------------------
(* Errors, names and relationships *)

\* an error value: what it is and the part it comes from
Err(e, at) == [e |-> e, at |-> at]
NilErr == Err("nil", "")
EOF == Err("EOF", "")
\* ctx.Err() of a canceled context
Canceled == Err("context canceled", "")
\* DecodeContext has not returned
NotReturned == Err("not returned", "")
\* DecodeContext did not return: the goroutine panicked
Panic == Err("panic: nil pointer dereference", "")

RelType3DModel == "3dmodel"
RelTypeOther == "other"

Namespace == "core"
ForeignSpace == "foreign"

Rel(t, p) == [Type |-> t, Path |-> p]
Name(s, l) == [Space |-> s, Local |-> l]
ZeroName == Name("", "")

\* strings.EqualFold on the part names of the packages below
Fold(s) == IF s = "T" THEN "t" ELSE s
\* a comparison that tells the cases apart
EqualExact(a, b) == a = b
EqualFold(a, b) == Fold(a) = Fold(b)

----------------------------------------------------------------------------
(* Bounds *)

\* most model-type relationships of the root part (auxiliary tasks) in Spec
MaxAux == 2
\* most package relationships, and most relationships of a root part, in SpecOPC
MaxPkgRels == 2
MaxRootRels == 2

\* var checkEveryBytes = int64(4 * 1024 * 1024)
checkEveryBytes == 4194304

----------------------------------------------------------------------------
(* The package: files, their relationships, and their token streams *)

\* the parts stored in the container; "x" is referenced but not stored
Files == {"root", "r2", "a", "b", "t", "T"}

Exists(p, path) == path \in Files

\* packageFile.Open of path fails
OpenFails(p, path) == p.kind[path] = "noopen"

\* packageFile.Relationships
FileRels(p, path) == p.partRels[path]

----------------------------------------------------------------------------
(* processOPC: the relationship walk *)

\* Decoder.addAttachment; copyFile fails when the file cannot be opened
addAttachment(p, attachments, file) ==
    IF \E k \in 1..Len(attachments) : EqualFold(attachments[k].Path, file)
    THEN attachments
    ELSE IF ~OpenFails(p, file)
         THEN Append(attachments, [Path |-> file])
         ELSE attachments

NewChildModel == [Resources |-> <<>>, Relationships |-> <<>>]

\* the iteration with the model-type relationships of every part followed
extractRelFollow(p, w, modelFile, rel, isRoot) ==
    IF ~Exists(p, rel.Path) THEN w
    ELSE IF rel.Type = RelType3DModel
         THEN [w EXCEPT !.nonRootModels = Append(@, rel.Path),
                        !.Childs = (rel.Path :> NewChildModel) @@ @]
    ELSE IF isRoot
         THEN [w EXCEPT !.Attachments = addAttachment(p, @, rel.Path),
                        !.Relationships = Append(@, rel)]
    ELSE IF modelFile \in DOMAIN w.Childs
         THEN [w EXCEPT !.Attachments = addAttachment(p, @, rel.Path),
                        !.Childs[modelFile].Relationships = Append(@, rel)]
         ELSE w

\* one iteration of the loop of extractCoreAttachments over modelFile's relationships
extractRel(p, w, modelFile, rel, isRoot) ==
    IF ~Exists(p, rel.Path) THEN w
    ELSE IF isRoot
    THEN IF rel.Type = RelType3DModel
         THEN [w EXCEPT !.nonRootModels = Append(@, rel.Path),
                        !.Childs = (rel.Path :> NewChildModel) @@ @]
         ELSE [w EXCEPT !.Attachments = addAttachment(p, @, rel.Path),
                        !.Relationships = Append(@, rel)]
    ELSE IF rel.Type # RelType3DModel /\ modelFile \in DOMAIN w.Childs
         THEN [w EXCEPT !.Attachments = addAttachment(p, @, rel.Path),
                        !.Childs[modelFile].Relationships = Append(@, rel)]
         ELSE w

RECURSIVE extractFrom(_, _, _, _, _, _)
extractFrom(p, w, modelFile, rels, k, isRoot) ==
    IF k > Len(rels) THEN w
    ELSE extractFrom(p, extractRel(p, w, modelFile, rels[k], isRoot),
                     modelFile, rels, k + 1, isRoot)

\* Decoder.extractCoreAttachments
extractCoreAttachments(p, w, modelFile, isRoot) ==
    extractFrom(p, w, modelFile, FileRels(p, modelFile), 1, isRoot)

\* for _, file := range d.nonRootModels { d.extractCoreAttachments(file, model, false) }
RECURSIVE extractNonRoot(_, _, _, _)
extractNonRoot(p, w, list, k) ==
    IF k > Len(list) THEN w
    ELSE extractNonRoot(p, extractCoreAttachments(p, w, list[k], FALSE), list, k + 1)

\* the loop of processOPC over the package relationships, from the k-th on;
\* o is [w, rootFile, err]
RECURSIVE opcLoop(_, _, _)
opcLoop(p, o, k) ==
    IF k > Len(p.rels) THEN o
    ELSE LET r == p.rels[k] IN
         IF r.Type = RelType3DModel
         THEN IF ~Exists(p, r.Path)
              THEN [o EXCEPT !.rootFile = "",
                             !.err = Err("package root model points to an unexisting file", r.Path)]
              ELSE LET w1 == extractCoreAttachments(p, [o.w EXCEPT !.Path = r.Path], r.Path, TRUE)
                       w2 == extractNonRoot(p, w1, w1.nonRootModels, 1)
                   IN  opcLoop(p, [o EXCEPT !.w = w2, !.rootFile = r.Path], k + 1)
         ELSE IF Exists(p, r.Path)
              THEN opcLoop(p, [o EXCEPT !.w.RootRelationships = Append(@, r),
                                        !.w.Attachments = addAttachment(p, @, r.Path)],
                           k + 1)
              ELSE opcLoop(p, o, k + 1)

\* processOPC without its check that a root part was found
processOPCNoRootCheck(p, w) ==
    IF p.openErr
    THEN [w |-> w, rootFile |-> "", err |-> Err("cannot open package", "")]
    ELSE opcLoop(p, [w |-> w, rootFile |-> "", err |-> NilErr], 1)

\* Decoder.processOPC on the walk state w: [w, rootFile, err]
processOPC(p, w) ==
    IF p.openErr
    THEN [w |-> w, rootFile |-> "", err |-> Err("cannot open package", "")]
    ELSE LET o == opcLoop(p, [w |-> w, rootFile |-> "", err |-> NilErr], 1) IN
         IF o.err # NilErr THEN o
         ELSE IF o.rootFile = ""
              THEN [o EXCEPT !.err = Err("package does not have root model", "")]
              ELSE o

----------------------------------------------------------------------------
(* The token stream (XMLDecoder) of a model part *)

\* tokens: k is the token type, name the element name, off the value of
\* InputOffset() once the token is read, bad whether an attribute of a start
\* element fails to parse, id the id attribute of a resource or build item
StartElement(n, off, bad, id) == [k |-> "start", name |-> n, off |-> off, bad |-> bad, id |-> id]
EndElement(n, off) == [k |-> "end", name |-> n, off |-> off, bad |-> FALSE, id |-> 0]
CharData(off) == [k |-> "chardata", name |-> ZeroName, off |-> off, bad |-> FALSE, id |-> 0]

\* a stream is [toks, end]: end is the error Token() returns once toks are read
Stream(toks, end) == [toks |-> toks, end |-> end]

\* x.Skip(): consumes tokens through the end element matching the start element
\* just read; returns [pos, err]
RECURSIVE skipFrom(_, _, _)
skipFrom(x, pos, depth) ==
    IF depth = 0 THEN [pos |-> pos, err |-> NilErr]
    ELSE IF pos >= Len(x.toks) THEN [pos |-> pos, err |-> x.end]
    ELSE LET t == x.toks[pos + 1] IN
         skipFrom(x, pos + 1,
                  IF t.k = "start" THEN depth + 1
                  ELSE IF t.k = "end" THEN depth - 1 ELSE depth)

\* nothing is consumed
SkipNone(x, pos) == [pos |-> pos, err |-> NilErr]

Skip(x, pos) == skipFrom(x, pos, 1)

\* x.InputOffset() after pos tokens are read
InputOffset(x, pos) == IF pos = 0 THEN 0 ELSE x.toks[pos].off

----------------------------------------------------------------------------
(* The element decoders: a decoder is [kind, id] *)

Dec(kind, id) == [kind |-> kind, id |-> id]
NoDecoder == Dec("nil", 0)

\* the Child method of every element decoder, for a start element tok
Child(d, tok, isRoot) ==
    LET n == tok.name
        core(l) == n.Space = Namespace /\ n.Local = l
    IN
    CASE d.kind = "top" ->
            IF n = Name(Namespace, "model") THEN Dec("model", 0) ELSE NoDecoder
      [] d.kind = "model" ->
            IF core("resources") THEN Dec("resources", 0)
            ELSE IF core("build") /\ isRoot THEN Dec("build", 0)
            ELSE IF core("metadata") /\ isRoot THEN Dec("metadata", 0)
            ELSE NoDecoder
      [] d.kind = "resources" ->
            IF core("object") THEN Dec("object", tok.id)
            ELSE IF core("basematerials") THEN Dec("basematerials", tok.id)
            ELSE NoDecoder
      [] d.kind = "build" ->
            IF core("item") THEN Dec("item", tok.id) ELSE NoDecoder
      [] d.kind = "item" ->
            IF core("metadatagroup") THEN Dec("metadatagroup", 0) ELSE NoDecoder
      [] d.kind = "metadatagroup" ->
            IF core("metadata") THEN Dec("metadata", 0) ELSE NoDecoder
      [] d.kind = "basematerials" ->
            IF core("base") THEN Dec("base", 0) ELSE NoDecoder
      [] d.kind = "object" ->
            IF core("mesh") THEN Dec("mesh", 0)
            ELSE IF core("components") THEN Dec("components", 0)
            ELSE IF core("metadatagroup") THEN Dec("metadatagroup", 0)
            ELSE NoDecoder
      [] d.kind = "mesh" ->
            IF core("vertices") THEN Dec("vertices", 0)
            ELSE IF core("triangles") THEN Dec("triangles", 0)
            ELSE NoDecoder
      [] d.kind = "vertices" ->
            IF core("vertex") THEN Dec("vertex", 0) ELSE NoDecoder
      [] d.kind = "triangles" ->
            IF core("triangle") THEN Dec("triangle", 0) ELSE NoDecoder
      [] d.kind = "components" ->
            IF core("component") THEN Dec("component", 0) ELSE NoDecoder
      [] OTHER -> NoDecoder

----------------------------------------------------------------------------
(* The Scanner of one decode unit and the hooks that write it *)

\* scanner := Scanner{...}; state, names := ...; nextBytesCheck := checkEveryBytes;
\* currentDecoder = &topLevelDecoder{...}
NewScanner(path, isRoot, isStrict) ==
    [ModelPath |-> path, IsRoot |-> isRoot, Strict |-> isStrict,
     Err |-> NilErr, Warnings |-> <<>>, Resources |-> <<>>, BuildItems |-> <<>>,
     Element |-> "", pos |-> 0,
     state |-> <<>>, names |-> <<>>,
     currentDecoder |-> Dec("top", 0), currentName |-> ZeroName,
     nextBytesCheck |-> checkEveryBytes,
     polls |-> 0, running |-> TRUE]

\* a non-fatal parse error reported to the Scanner: it is collected, and the
\* scan goes on, in strict mode too
ScannerWarn(sc, w) == [sc EXCEPT !.Warnings = Append(@, w)]

\* currentDecoder.Start(tp.Attr) of a NodeDecoder that SetScanner bound to the
\* Scanner (the NodeDecoder implementations are not in src/; the element
\* decoders of decoder.go have no SetScanner and are modelled further down):
\* the call returns nothing, a malformed attribute is reported to the Scanner
StartHook(sc, tok) ==
    IF tok.bad
    THEN ScannerWarn(sc, [path |-> sc.ModelPath, el |-> sc.Element, at |-> sc.pos])
    ELSE sc

\* currentDecoder.End() of such a NodeDecoder: a finished resource or build
\* item is committed to the Scanner, whose Resources and BuildItems the
\* caller of decodeModelFile merges into the Model
EndHook(sc) ==
    LET d == sc.currentDecoder IN
    IF d.kind \in {"object", "basematerials"}
    THEN [sc EXCEPT !.Resources = Append(@, [path |-> sc.ModelPath, kind |-> d.kind, id |-> d.id])]
    ELSE IF d.kind = "item"
    THEN [sc EXCEPT !.BuildItems = Append(@, [path |-> sc.ModelPath, id |-> d.id])]
    ELSE sc

----------------------------------------------------------------------------
(* decodeModelFile: one iteration of its token loop *)

\* case xml.StartElement
onStart(sc, x, tok) ==
    LET tmp == Child(sc.currentDecoder, tok, sc.IsRoot) IN
    IF tmp # NoDecoder
    THEN StartHook([sc EXCEPT !.state = Append(@, sc.currentDecoder),
                              !.names = Append(@, sc.currentName),
                              !.currentName = tok.name,
                              !.Element = tok.name.Local,
                              !.currentDecoder = tmp], tok)
    ELSE LET s == Skip(x, sc.pos) IN [sc EXCEPT !.pos = s.pos, !.Err = s.err]

\* the select on ctx.Done() made at every end element
pollCtxAlways(sc, x, ctxDone) ==
    [sc EXCEPT !.Err = IF ctxDone THEN Canceled ELSE @,
               !.nextBytesCheck = @ + checkEveryBytes,
               !.polls = @ + 1]

\* the select on ctx.Done() made once InputOffset() passes nextBytesCheck
pollCtx(sc, x, ctxDone) ==
    IF InputOffset(x, sc.pos) > sc.nextBytesCheck
    THEN [sc EXCEPT !.Err = IF ctxDone THEN Canceled ELSE @,
                    !.nextBytesCheck = @ + checkEveryBytes,
                    !.polls = @ + 1]
    ELSE sc

\* case xml.EndElement with the decoder left on the stack
onEndKeep(sc, x, tok, ctxDone) ==
    pollCtx(IF sc.currentName = tok.name
            THEN EndHook([sc EXCEPT !.Element = tok.name.Local]) ELSE sc,
            x, ctxDone)

\* case xml.EndElement
onEnd(sc, x, tok, ctxDone) ==
    LET popped ==
            IF sc.currentName = tok.name
            THEN LET e == EndHook([sc EXCEPT !.Element = tok.name.Local]) IN
                 [e EXCEPT !.currentDecoder = sc.state[Len(sc.state)],
                           !.state = SubSeq(sc.state, 1, Len(sc.state) - 1),
                           !.currentName = sc.names[Len(sc.names)],
                           !.names = SubSeq(sc.names, 1, Len(sc.names) - 1)]
            ELSE sc
    IN pollCtx(popped, x, ctxDone)

\* the loop has ended and every error is dropped
endScanAny(sc) == [sc EXCEPT !.Err = NilErr, !.running = FALSE]

\* the loop has ended: if scanner.Err == io.EOF { scanner.Err = nil }
endScan(sc) ==
    [sc EXCEPT !.Err = IF @ = EOF THEN NilErr ELSE @, !.running = FALSE]

\* one iteration of the for loop of decodeModelFile on stream x, the
\* context being done or not at this iteration
ScanStep(sc, x, ctxDone) ==
    IF sc.pos >= Len(x.toks)
    THEN endScan([sc EXCEPT !.Err = x.end])
    ELSE LET tok == x.toks[sc.pos + 1]
             rd == [sc EXCEPT !.pos = @ + 1]
             after == CASE tok.k = "start" -> onStart(rd, x, tok)
                        [] tok.k = "end" -> onEnd(rd, x, tok, ctxDone)
                        [] OTHER -> rd
         IN  IF after.Err # NilErr THEN endScan(after) ELSE after

----------------------------------------------------------------------------
(* The documents of the packages *)

CoreName(l) == Name(Namespace, l)

\* <model><resources><object id="1" .../></resources>
\*  <build><item objectid="1" .../></build></model>
\* the object and the item each carry a malformed attribute; the document
\* is larger than checkEveryBytes
ModelDoc ==
    << StartElement(CoreName("model"), 10, FALSE, 0),
       StartElement(CoreName("resources"), 20, FALSE, 0),
       StartElement(CoreName("object"), 30, TRUE, 1),
       EndElement(CoreName("object"), 5000000),
       EndElement(CoreName("resources"), 5000010),
       StartElement(CoreName("build"), 5000020, FALSE, 0),
       StartElement(CoreName("item"), 5000030, TRUE, 1),
       EndElement(CoreName("item"), 5000040),
       EndElement(CoreName("build"), 5000050),
       EndElement(CoreName("model"), 9000000) >>

\* <model><resources><basematerials id="2"/></resources></model>
\* a well-formed document smaller than checkEveryBytes
SmallDoc ==
    << StartElement(CoreName("model"), 10, FALSE, 0),
       StartElement(CoreName("resources"), 20, FALSE, 0),
       StartElement(CoreName("basematerials"), 30, FALSE, 2),
       EndElement(CoreName("basematerials"), 40),
       EndElement(CoreName("resources"), 50),
       EndElement(CoreName("model"), 60) >>

\* what a stored part holds: a model document ("ok", "small"), a document
\* whose stream breaks after the model start element ("io"), or a part
\* that cannot be opened ("noopen")
Kinds == {"ok", "small", "io", "noopen"}

\* d.tokenReader(f) on the opened part; a part of kind "doc" holds the
\* document the package carries in its field doc
StreamOf(p, path) ==
    CASE p.kind[path] = "io" ->
            Stream(SubSeq(ModelDoc, 1, 1), Err("unexpected token", path))
      [] p.kind[path] = "small" -> Stream(SmallDoc, EOF)
      [] p.kind[path] = "doc" -> Stream(p.doc, EOF)
      [] p.kind[path] = "cut" -> Stream(p.doc, Err("unexpected EOF", path))
      [] OTHER -> Stream(ModelDoc, EOF)

----------------------------------------------------------------------------
(* State of the decode *)

EmptyModel ==
    [Path |-> "", Attachments |-> <<>>, RootRelationships |-> <<>>,
     Relationships |-> <<>>, Childs |-> <<>>, Resources |-> <<>>, BuildItems |-> <<>>]

\* the part of the decoder and the model that processOPC works on
ToWalk(m, nrm) ==
    [nonRootModels |-> nrm, Path |-> m.Path, Attachments |-> m.Attachments,
     RootRelationships |-> m.RootRelationships, Relationships |-> m.Relationships,
     Childs |-> m.Childs]

FromWalk(m, w) ==
    [m EXCEPT !.Path = w.Path, !.Attachments = w.Attachments,
              !.RootRelationships = w.RootRelationships,
              !.Relationships = w.Relationships, !.Childs = w.Childs]

\* a nil *Scanner
NilScanner == [nil |-> TRUE]

\* no element decoder is at work, no library call is made
Idle == [idle |-> TRUE]

NewTask == [pc |-> "open", sc |-> NilScanner, err1 |-> NilErr]

\* the derived context of processNonRootModels is done
CtxDone == derivedDone \/ callerDone

----------------------------------------------------------------------------
(* The merge of processNonRootModels and processRootModel *)

\* the auxiliary part's resources put into the model's own list
addChildModelFileShared(mw, sc) ==
    [mw EXCEPT !.model = [@ EXCEPT !.Resources = @ \o sc.Resources],
               !.warnings = @ \o sc.Warnings]

\* Decoder.addChildModelFile on [model, warnings]
addChildModelFile(mw, sc) ==
    [mw EXCEPT !.model = [@ EXCEPT !.Childs[sc.ModelPath].Resources = sc.Resources],
               !.warnings = @ \o sc.Warnings]

\* Decoder.addModelFile on [model, warnings]
addModelFile(mw, sc) ==
    [model |-> [mw.model EXCEPT !.BuildItems = @ \o sc.BuildItems,
                                !.Resources = sc.Resources],
     warnings |-> mw.warnings \o sc.Warnings]

\* the indices left in the order files.Range gave them
SortIntsNone(s) == s

\* sort.Ints
RECURSIVE SortInts(_)
SortInts(s) ==
    IF Len(s) <= 1 THEN s
    ELSE LET lo == CHOOSE k \in 1..Len(s) : \A j \in 1..Len(s) : s[k] <= s[j]
             rest == [j \in 1..(Len(s) - 1) |-> IF j < lo THEN s[j] ELSE s[j + 1]]
         IN  <<s[lo]>> \o SortInts(rest)

\* the orders in which files.Range may visit the keys
RangeOrders(f) ==
    {o \in [1..Cardinality(DOMAIN f) -> DOMAIN f] :
        \A a, b \in 1..Cardinality(DOMAIN f) : a # b => o[a] # o[b]}

\* for _, index := range indices { f, _ := files.Load(index); d.addChildModelFile(...) }
\* addChildModelFile reads p.ModelPath: a nil *Scanner stored by a task whose
\* part did not open makes it panic
RECURSIVE mergeFiles(_, _, _, _)
mergeFiles(mw, f, indices, k) ==
    IF k > Len(indices) THEN mw
    ELSE IF f[indices[k]] = NilScanner THEN [mw EXCEPT !.panicked = TRUE]
    ELSE mergeFiles(addChildModelFile(mw, f[indices[k]]), f, indices, k + 1)

\* no wait for the tasks
WgWaitNone == TRUE

\* wg.Wait() returns
WgWait == \A i \in DOMAIN task : task[i].pc = "done"

----------------------------------------------------------------------------
(* The packages decoded *)

SeqsUpTo(S, n) == UNION {[1..k -> S] : k \in 0..n}

NoRels == [f \in Files |-> <<>>]
AllOk == [f \in Files |-> "ok"]

Targets(rels) == {rels[k].Path : k \in 1..Len(rels)}

\* packages of the concurrent decode: a root part with up to MaxAux
\* model-type relationships to the auxiliary parts a and b
AuxPackages ==
    {[openErr |-> FALSE,
      rels |-> <<Rel(RelType3DModel, "root")>>,
      partRels |-> [NoRels EXCEPT !["root"] = rr],
      kind |-> [AllOk EXCEPT !["a"] = ka, !["b"] = kb, !["root"] = kr]] :
        rr \in SeqsUpTo({Rel(RelType3DModel, "a"), Rel(RelType3DModel, "b")}, MaxAux),
        ka \in Kinds, kb \in Kinds, kr \in {"ok", "noopen"}}

\* a part that no relationship reaches holds a plain model document
Canonical(p) ==
    \A f \in {"a", "b"} : f \notin Targets(p.partRels["root"]) => p.kind[f] = "ok"

\* a package whose root relationship targets a part that is not stored
NoRootPackage ==
    [openErr |-> FALSE, rels |-> <<Rel(RelType3DModel, "x")>>,
     partRels |-> NoRels, kind |-> AllOk]

Init ==
    /\ pkg \in {p \in AuxPackages : Canonical(p)} \cup {NoRootPackage}
    /\ strict \in BOOLEAN
    /\ dWarnings = <<>>
    /\ nonRootModels = <<>>
    /\ model = EmptyModel
    /\ pc = "init"
    /\ rootFile = ""
    /\ ret = NotReturned
    /\ callerDone = FALSE
    /\ cancelAt = "none"
    /\ derivedDone = FALSE
    /\ err = NilErr
    /\ files = <<>>
    /\ task = <<>>
    /\ rootSc = NilScanner
    /\ el = Idle
    /\ call = Idle

----------------------------------------------------------------------------
(* DecodeContext *)

\* rootFile, err := d.processOPC(model); if err != nil { return err }
DoProcessOPC ==
    /\ pc = "init"
    /\ LET o == processOPC(pkg, ToWalk(model, nonRootModels)) IN
        /\ model' = FromWalk(model, o.w)
        /\ nonRootModels' = o.w.nonRootModels
        /\ rootFile' = o.rootFile
        /\ IF o.err # NilErr
           THEN ret' = o.err /\ pc' = "done"
           ELSE ret' = ret /\ pc' = "spawn"
    /\ UNCHANGED <<pkg, strict, dWarnings, callerDone, cancelAt, derivedDone,
                   err, files, task, rootSc>>

\* processNonRootModels: wg.Add, context.WithCancel, one goroutine per part
Spawn ==
    /\ pc = "spawn"
    /\ task' = [i \in 1..Len(nonRootModels) |-> NewTask]
    /\ err' = NilErr
    /\ files' = <<>>
    /\ derivedDone' = FALSE
    /\ pc' = "wait"
    /\ UNCHANGED <<pkg, strict, dWarnings, nonRootModels, model, rootFile, ret,
                   callerDone, cancelAt, rootSc>>

TaskVars == <<pkg, strict, dWarnings, nonRootModels, model, pc, rootFile, ret,
              callerDone, cancelAt, rootSc>>

\* readChildModel: attachment.Open()
TaskOpen(i) ==
    /\ task[i].pc = "open"
    /\ task' = [task EXCEPT ![i] =
            IF OpenFails(pkg, nonRootModels[i])
            THEN [@ EXCEPT !.pc = "select", !.err1 = Err("cannot open part", nonRootModels[i])]
            ELSE [@ EXCEPT !.pc = "scan", !.sc = NewScanner(nonRootModels[i], FALSE, strict)]]
    /\ UNCHANGED <<err, files, derivedDone>>
    /\ UNCHANGED TaskVars

\* readChildModel: one iteration of decodeModelFile; return scanner, scanner.Err
TaskScan(i) ==
    /\ task[i].pc = "scan"
    /\ LET sc == ScanStep(task[i].sc, StreamOf(pkg, nonRootModels[i]), CtxDone) IN
       task' = [task EXCEPT ![i] =
            IF sc.running THEN [@ EXCEPT !.sc = sc]
            ELSE [@ EXCEPT !.sc = sc, !.err1 = sc.Err, !.pc = "select"]]
    /\ UNCHANGED <<err, files, derivedDone>>
    /\ UNCHANGED TaskVars

\* select { case <-ctx.Done(): return; default: }
TaskSelect(i) ==
    /\ task[i].pc = "select"
    /\ task' = [task EXCEPT ![i].pc =
            IF CtxDone THEN "done"
            ELSE IF task[i].err1 # NilErr THEN "seterr" ELSE "store"]
    /\ UNCHANGED <<err, files, derivedDone>>
    /\ UNCHANGED TaskVars

\* the failure is not recorded in err
TaskSetErrSkipped(i) ==
    /\ task[i].pc = "seterr"
    /\ task' = [task EXCEPT ![i].pc = "cancel"]
    /\ UNCHANGED <<err, files, derivedDone>>
    /\ UNCHANGED TaskVars

\* err = err1
TaskSetErr(i) ==
    /\ task[i].pc = "seterr"
    /\ err' = task[i].err1
    /\ task' = [task EXCEPT ![i].pc = "cancel"]
    /\ UNCHANGED <<files, derivedDone>>
    /\ UNCHANGED TaskVars

\* cancel()
TaskCancel(i) ==
    /\ task[i].pc = "cancel"
    /\ derivedDone' = TRUE
    /\ task' = [task EXCEPT ![i].pc = "store"]
    /\ UNCHANGED <<err, files>>
    /\ UNCHANGED TaskVars

\* files.Store(i, f), then the deferred wg.Done()
TaskStore(i) ==
    /\ task[i].pc = "store"
    /\ files' = (i :> task[i].sc) @@ files
    /\ task' = [task EXCEPT ![i].pc = "done"]
    /\ UNCHANGED <<err, derivedDone>>
    /\ UNCHANGED TaskVars

TaskStep(i) ==
    \/ TaskOpen(i)
    \/ TaskScan(i)
    \/ TaskSelect(i)
    \/ TaskSetErr(i)
    \/ TaskCancel(i)
    \/ TaskStore(i)

\* wg.Wait(); if err != nil { return err }; the merge in index order; the
\* deferred cancel()
WaitAndMerge ==
    /\ pc = "wait"
    /\ WgWait
    /\ derivedDone' = TRUE
    /\ IF err # NilErr
       THEN /\ ret' = err
            /\ pc' = "done"
            /\ UNCHANGED <<model, dWarnings>>
       ELSE \E order \in RangeOrders(files) :
              LET mw == mergeFiles([model |-> model, warnings |-> dWarnings,
                                    panicked |-> FALSE],
                                   files, SortInts(order), 1)
              IN  /\ model' = mw.model
                  /\ dWarnings' = mw.warnings
                  /\ IF mw.panicked
                     THEN pc' = "done" /\ ret' = Panic
                     ELSE pc' = "rootopen" /\ ret' = ret
    /\ UNCHANGED <<pkg, strict, nonRootModels, rootFile, callerDone, cancelAt,
                   err, files, task, rootSc>>

\* processRootModel: rootFile.Open()
RootOpen ==
    /\ pc = "rootopen"
    /\ IF OpenFails(pkg, rootFile)
       THEN /\ ret' = Err("cannot open part", rootFile)
            /\ pc' = "done"
            /\ rootSc' = rootSc
       ELSE /\ rootSc' = NewScanner(rootFile, TRUE, strict)
            /\ pc' = "rootscan"
            /\ ret' = ret
    /\ UNCHANGED <<pkg, strict, dWarnings, nonRootModels, model, rootFile,
                   callerDone, cancelAt, derivedDone, err, files, task>>

\* processRootModel: one iteration of decodeModelFile, under the caller's ctx
RootScan ==
    /\ pc = "rootscan"
    /\ rootSc.running
    /\ rootSc' = ScanStep(rootSc, StreamOf(pkg, rootFile), callerDone)
    /\ UNCHANGED <<pkg, strict, dWarnings, nonRootModels, model, pc, rootFile, ret,
                   callerDone, cancelAt, derivedDone, err, files, task>>

\* the context is not polled once the scan has ended
RootPollNone ==
    /\ pc = "rootscan"
    /\ ~rootSc.running
    /\ pc' = "rootret"
    /\ UNCHANGED <<pkg, strict, dWarnings, nonRootModels, model, rootFile, ret,
                   callerDone, cancelAt, derivedDone, err, files, task, rootSc>>

\* processRootModel: select { case <-ctx.Done(): scanner.Err = ctx.Err(); default: }
RootPoll ==
    /\ pc = "rootscan"
    /\ ~rootSc.running
    /\ rootSc' = [rootSc EXCEPT !.Err = IF callerDone THEN Canceled ELSE @]
    /\ pc' = "rootret"
    /\ UNCHANGED <<pkg, strict, dWarnings, nonRootModels, model, rootFile, ret,
                   callerDone, cancelAt, derivedDone, err, files, task>>

\* processRootModel: d.addModelFile(scanner, model); return scanner.Err
RootReturn ==
    /\ pc = "rootret"
    /\ LET mw == addModelFile([model |-> model, warnings |-> dWarnings], rootSc) IN
        /\ model' = mw.model
        /\ dWarnings' = mw.warnings
    /\ ret' = rootSc.Err
    /\ pc' = "done"
    /\ UNCHANGED <<pkg, strict, nonRootModels, rootFile, callerDone, cancelAt,
                   derivedDone, err, files, task, rootSc>>

\* the caller cancels its context, before the call or while it runs
Cancel ==
    /\ ~callerDone
    /\ pc # "done"
    /\ callerDone' = TRUE
    /\ cancelAt' = IF pc = "rootret" THEN "after the last poll" ELSE "before the last poll"
    /\ UNCHANGED <<pkg, strict, dWarnings, nonRootModels, model, pc, rootFile, ret,
                   derivedDone, err, files, task, rootSc>>
    /\ UNCHANGED unitVars

\* the steps of DecodeContext and of its goroutines
Program ==
    /\ \/ DoProcessOPC
       \/ Spawn
       \/ \E i \in DOMAIN task : TaskStep(i)
       \/ WaitAndMerge
       \/ RootOpen
       \/ RootScan
       \/ RootPoll
       \/ RootReturn
    /\ UNCHANGED unitVars

Next == Program \/ Cancel

Spec == Init /\ [][Next]_vars

\* every goroutine that can take a step eventually takes one
FairSpec == Spec /\ WF_vars(Program)

----------------------------------------------------------------------------
(* The relationship walk alone, over a wider family of packages *)

PkgRelChoices ==
    {Rel(RelType3DModel, "root"), Rel(RelType3DModel, "r2"), Rel(RelType3DModel, "x"),
     Rel(RelTypeOther, "t"), Rel(RelTypeOther, "T"), Rel(RelTypeOther, "x")}

RootRelChoices ==
    {Rel(RelType3DModel, "a"), Rel(RelType3DModel, "b"), Rel(RelType3DModel, "x"),
     Rel(RelTypeOther, "t"), Rel(RelTypeOther, "T")}

OPCPackages ==
    {[openErr |-> oe,
      rels |-> pr,
      partRels |-> [NoRels EXCEPT !["root"] = rr,
                                  !["r2"] = <<Rel(RelType3DModel, "b")>>,
                                  !["a"] = <<Rel(RelTypeOther, "t"), Rel(RelType3DModel, "b")>>,
                                  !["b"] = <<Rel(RelTypeOther, "T")>>],
      kind |-> AllOk] :
        oe \in BOOLEAN,
        pr \in SeqsUpTo(PkgRelChoices, MaxPkgRels),
        rr \in SeqsUpTo(RootRelChoices, MaxRootRels)}

InitOPC ==
    /\ pkg \in {p \in OPCPackages : p.openErr => (p.rels = <<>> /\ p.partRels["root"] = <<>>)}
    /\ strict = TRUE
    /\ dWarnings = <<>>
    /\ nonRootModels = <<>>
    /\ model = EmptyModel
    /\ pc = "init"
    /\ rootFile = ""
    /\ ret = NotReturned
    /\ callerDone = FALSE
    /\ cancelAt = "none"
    /\ derivedDone = FALSE
    /\ err = NilErr
    /\ files = <<>>
    /\ task = <<>>
    /\ rootSc = NilScanner
    /\ el = Idle
    /\ call = Idle

NextOPC == DoProcessOPC /\ UNCHANGED unitVars

SpecOPC == InitOPC /\ [][NextOPC]_vars

\* the packages of SpecOPC, each also with a part t whose content cannot be
\* copied (copyFile returns an error)
OPCCopyPackages ==
    {[p EXCEPT !.kind = k] :
        p \in {q \in OPCPackages : q.openErr => (q.rels = <<>> /\ q.partRels["root"] = <<>>)},
        k \in {AllOk, [AllOk EXCEPT !["t"] = "noopen"]}}

InitOPCCopy ==
    /\ pkg \in OPCCopyPackages
    /\ strict = TRUE
    /\ dWarnings = <<>>
    /\ nonRootModels = <<>>
    /\ model = EmptyModel
    /\ pc = "init"
    /\ rootFile = ""
    /\ ret = NotReturned
    /\ callerDone = FALSE
    /\ cancelAt = "none"
    /\ derivedDone = FALSE
    /\ err = NilErr
    /\ files = <<>>
    /\ task = <<>>
    /\ rootSc = NilScanner
    /\ el = Idle
    /\ call = Idle

SpecOPCCopy == InitOPCCopy /\ [][NextOPC]_vars

----------------------------------------------------------------------------
(* Properties of the concurrent decode (Spec, FairSpec) *)

\* decodeModelFile run to its end on a part, under a context never canceled
RECURSIVE runScan(_, _)
runScan(sc, x) == IF ~sc.running THEN sc ELSE runScan(ScanStep(sc, x, FALSE), x)

decodeModelFile(p, path, isRoot, isStrict) ==
    runScan(NewScanner(path, isRoot, isStrict), StreamOf(p, path))

\* processNonRootModels has returned
AuxReturned == pc \in {"rootopen", "rootscan", "rootret", "done"} /\ rootFile # ""

\* every auxiliary part opens and decodes without a fatal error
AllAuxDecode ==
    \A i \in 1..Len(nonRootModels) : pkg.kind[nonRootModels[i]] \in {"ok", "small"}

\* the warnings of the auxiliary parts, from the i-th on, in discovery order
RECURSIVE AuxWarningsFrom(_)
AuxWarningsFrom(i) ==
    IF i > Len(nonRootModels) THEN <<>>
    ELSE decodeModelFile(pkg, nonRootModels[i], FALSE, strict).Warnings \o AuxWarningsFrom(i + 1)

\* C1: when every auxiliary part decodes and the caller never cancels, the
\* merge is the one of ascending discovery index whatever the schedule:
\* Decoder.Warnings holds the parts' warnings in discovery order, and each
\* ChildModel holds the resources decoded from its part.
C1_MergeInDiscoveryOrder ==
    (AuxReturned /\ pc # "done" /\ ~callerDone /\ AllAuxDecode) =>
        /\ dWarnings = AuxWarningsFrom(1)
        /\ \A i \in 1..Len(nonRootModels) :
              model.Childs[nonRootModels[i]].Resources =
                  decodeModelFile(pkg, nonRootModels[i], FALSE, strict).Resources

\* two different parts, each with warnings, were decoded and merged
C1_Witness ==
    /\ pc = "rootopen" /\ ~callerDone /\ AllAuxDecode
    /\ Len(nonRootModels) >= 2
    /\ nonRootModels[1] # nonRootModels[2]
    /\ pkg.kind[nonRootModels[1]] = "ok" /\ pkg.kind[nonRootModels[2]] = "ok"
    /\ Len(dWarnings) >= 2

\* C2: once a failing task has recorded its error in err, no task that fails
\* later overwrites it, so the error returned is the first one recorded.
C2_FirstErrorKept ==
    [][(pc = "wait" /\ err # NilErr) => err' = err]_vars

\* a task's readChildModel returned an error
SomeTaskFailed == \E i \in DOMAIN task : task[i].err1 # NilErr

\* C3: if an auxiliary task fails and the caller has not canceled,
\* DecodeContext returns a non-nil error, the shared cancellation is
\* triggered (it is by the time the failed task ends), and nothing is
\* merged: no ChildModel.Resources is assigned and no warning is appended,
\* finished tasks included.
C3_FailureDiscardsAll ==
    /\ (~callerDone /\ \E i \in DOMAIN task :
            task[i].err1 # NilErr /\ task[i].pc \in {"store", "done"}) => derivedDone
    /\ ((pc \in {"rootopen", "rootscan", "rootret", "done"}) /\ SomeTaskFailed /\ ~callerDone) =>
        /\ pc = "done"
        /\ ret \notin {NilErr, NotReturned, Panic}
        /\ derivedDone
        /\ dWarnings = <<>>
        /\ model.Resources = <<>> /\ model.BuildItems = <<>>
        /\ \A path \in DOMAIN model.Childs : model.Childs[path].Resources = <<>>

\* a task failed after another one had finished and stored its result
C3_Witness ==
    /\ pc = "done" /\ ~callerDone
    /\ \E i \in DOMAIN task : task[i].err1 # NilErr
    /\ \E j \in DOMAIN files :
          /\ task[j].err1 = NilErr
          /\ Len(files[j].Warnings) > 0 /\ Len(files[j].Resources) > 0

\* C4: processNonRootModels returns only once every task it spawned is
\* done, and it does return: the wait always ends.
C4_WaitsForAllTasks ==
    /\ [](pc \in {"rootopen", "rootscan", "rootret", "done"} =>
            \A i \in DOMAIN task : task[i].pc = "done")
    /\ ((pc = "wait") ~> (pc # "wait"))

\* processNonRootModels returned after the caller canceled while two tasks
\* ran, one of which saw the cancellation in the middle of its scan
C4_Witness ==
    /\ pc \in {"rootopen", "rootscan", "rootret", "done"}
    /\ callerDone
    /\ Len(task) = 2
    /\ \E i \in DOMAIN task : task[i].sc # NilScanner /\ task[i].sc.Err = Canceled

\* the container and the root part open
OpensFine == rootFile # "" /\ ~OpenFails(pkg, rootFile)

\* C5 as stated: a context canceled before the call or at any point of the
\* decode makes DecodeContext return the context's cancellation error.
C5_CanceledAlwaysReported ==
    (pc = "done" /\ callerDone /\ OpensFine) => ret = Canceled

\* C5 amended: a context canceled before the call, or during the decode no
\* later than the cancellation poll that ends processRootModel, never yields
\* nil: DecodeContext returns the error an auxiliary task assigned to err if
\* one did, before the cancellation or after it, and the context's
\* cancellation error otherwise.
C5_CanceledBeforeLastPoll ==
    (pc = "done" /\ cancelAt = "before the last poll" /\ OpensFine) =>
        /\ ret # NilErr
        /\ ret = IF err # NilErr THEN err ELSE Canceled

\* the caller canceled after a task had stored its result, and DecodeContext
\* returned the cancellation error
C5_Witness ==
    /\ pc = "done" /\ cancelAt = "before the last poll" /\ OpensFine
    /\ ret = Canceled
    /\ DOMAIN files # {}
    /\ rootSc # NilScanner

\* a task has started
SomeTaskStarted == \E i \in DOMAIN task : task[i].pc # "open"

\* the warnings merged from the files, from index i on
RECURSIVE FilesWarningsFrom(_)
FilesWarningsFrom(i) ==
    IF i > Len(task) THEN <<>>
    ELSE (IF i \in DOMAIN files /\ files[i] # NilScanner THEN files[i].Warnings ELSE <<>>)
         \o FilesWarningsFrom(i + 1)

\* C6: the decode of the root part has completed before any auxiliary task
\* starts; consequently the warnings of the root part precede those of every
\* auxiliary part in Decoder.Warnings.
C6_RootBeforeAux ==
    /\ SomeTaskStarted => (rootSc # NilScanner /\ ~rootSc.running)
    /\ (pc = "done" /\ rootSc # NilScanner) =>
          dWarnings = rootSc.Warnings \o FilesWarningsFrom(1)

\* C7: while auxiliary tasks run, nothing writes the model's resources, its
\* build items or Decoder.Warnings: they are written only by the merge, once
\* every task is done, and by the root phase; and a step of a task writes
\* that task's own scanner and its own result only: it leaves the model, the
\* warnings, the result err of processNonRootModels and the results of the
\* other tasks as they are.
C7_TasksWriteOnlyTheirOwn ==
    [][ /\ (model'.Resources # model.Resources \/ model'.BuildItems # model.BuildItems
              \/ dWarnings' # dWarnings)
           => (pc = "rootret"
                 \/ (pc = "wait" /\ \A i \in DOMAIN task : task[i].pc = "done"))
        /\ (pc = "wait" /\ \E i \in DOMAIN task : task[i].pc # "done")
           => /\ model' = model
              /\ dWarnings' = dWarnings
              /\ Cardinality({i \in DOMAIN task : task'[i] # task[i]}) <= 1
        /\ \A i \in DOMAIN task :
              (pc = "wait" /\ pc' = "wait" /\ task'[i] # task[i]) =>
                 /\ err' = err
                 /\ \A j \in DOMAIN files' \ {i} : j \in DOMAIN files /\ files'[j] = files[j] ]_vars

\* C8: in strict mode a warning never stops a scan, and once every part is
\* decoded the decode returns an error because of the warnings collected;
\* in non-strict mode warnings never become a returned error.
C8_StrictPromotesWarnings ==
    (pc = "done" /\ rootSc # NilScanner /\ ~rootSc.running /\ dWarnings # <<>>) =>
        /\ rootSc.pos = Len(StreamOf(pkg, rootFile).toks) \/ rootSc.Err = Canceled
        /\ strict => ret # NilErr
        /\ (~strict /\ ~callerDone) => ret = NilErr

----------------------------------------------------------------------------
(* Properties of the relationship walk (SpecOPC) *)

IsModelRel(r) == r.Type = RelType3DModel

\* the package relationships before the k-th that have a stored target and
\* are not of the model type, in order
RECURSIVE PlainRelsBefore(_, _)
PlainRelsBefore(rels, k) ==
    IF k <= 1 THEN <<>>
    ELSE LET r == rels[k - 1] IN
         PlainRelsBefore(rels, k - 1)
            \o (IF ~IsModelRel(r) /\ Exists(pkg, r.Path) THEN <<r>> ELSE <<>>)

\* where the walk of the package relationships stops: at the first
\* model-type relationship whose target is not stored, else past the end
FailPoint(rels) ==
    IF \E k \in 1..Len(rels) : IsModelRel(rels[k]) /\ ~Exists(pkg, rels[k].Path)
    THEN CHOOSE k \in 1..Len(rels) :
            /\ IsModelRel(rels[k]) /\ ~Exists(pkg, rels[k].Path)
            /\ \A j \in 1..(k - 1) : ~(IsModelRel(rels[j]) /\ ~Exists(pkg, rels[j].Path))
    ELSE Len(rels) + 1

\* the package has no root relationship of the model type, or one whose
\* target is not stored
NoUsableRoot ==
    \/ \A k \in 1..Len(pkg.rels) : ~IsModelRel(pkg.rels[k])
    \/ \E k \in 1..Len(pkg.rels) : IsModelRel(pkg.rels[k]) /\ ~Exists(pkg, pkg.rels[k].Path)

\* C9 as stated: without a usable root relationship DecodeContext returns a
\* fatal error and the model is exactly as before the call.
C9_NoPartialModel ==
    (pc = "done" /\ ~pkg.openErr /\ NoUsableRoot) =>
        /\ ret # NilErr
        /\ model = EmptyModel

\* the package relationships before the k-th whose target becomes an
\* attachment: not of the model type, target stored and copied, and no
\* earlier such relationship with the same target ignoring case
KeptBefore(rels, k) ==
    LET plain(j) == ~IsModelRel(rels[j]) /\ Exists(pkg, rels[j].Path)
                       /\ ~OpenFails(pkg, rels[j].Path)
    IN  {j \in 1..(k - 1) :
            /\ plain(j)
            /\ \A i \in 1..(j - 1) : ~(plain(i) /\ Fold(rels[i].Path) = Fold(rels[j].Path))}

\* the attachments made of them, in the order of the relationships
AttachedBefore(rels, k) ==
    LET idx == SelectSeq([j \in 1..(k - 1) |-> j], LAMBDA j : j \in KeptBefore(rels, k))
    IN  [n \in 1..Len(idx) |-> [Path |-> rels[idx[n]].Path]]

\* C9 amended: without a usable root relationship DecodeContext returns a
\* fatal error and decodes no part; the package relationships that precede
\* the failure have been applied. RootRelationships holds, in order, those of
\* them that are not of the model type and whose target is stored. When no
\* model-type relationship with a stored target precedes the failure,
\* Attachments holds the targets of the relationships in RootRelationships
\* in order, without those whose content could not be copied and without
\* those equal ignoring case to a target attached before, and the model's
\* path, Relationships, child table and the auxiliary-part list are as
\* before the call. The model is exactly as before the call if and only if
\* no relationship with a stored target precedes the failure.
C9_FatalWithoutDecode ==
    (pc # "init" /\ ~pkg.openErr /\ NoUsableRoot) =>
        LET k == FailPoint(pkg.rels)
            before == {pkg.rels[j] : j \in 1..(k - 1)}
        IN  /\ pc = "done"
            /\ ret # NilErr /\ ret # NotReturned
            /\ model.Resources = <<>> /\ model.BuildItems = <<>> /\ dWarnings = <<>>
            /\ task = <<>> /\ rootSc = NilScanner
            /\ model.RootRelationships = PlainRelsBefore(pkg.rels, k)
            /\ (\A r \in before : ~(IsModelRel(r) /\ Exists(pkg, r.Path))) =>
                  /\ model.Path = "" /\ model.Relationships = <<>>
                  /\ model.Childs = <<>> /\ nonRootModels = <<>>
                  /\ model.Attachments = AttachedBefore(pkg.rels, k)
            /\ (model = EmptyModel) <=> (\A r \in before : ~Exists(pkg, r.Path))

\* the package names t and T and no root; t cannot be copied: both
\* relationships are recorded and T alone is attached
C9_Witness ==
    /\ pc = "done" /\ ~pkg.openErr /\ NoUsableRoot
    /\ pkg.rels = <<Rel(RelTypeOther, "t"), Rel(RelTypeOther, "T")>>
    /\ OpenFails(pkg, "t")
    /\ ret = Err("package does not have root model", "")
    /\ model.RootRelationships = pkg.rels
    /\ model.Attachments = <<[Path |-> "T"]>>

NumModelRels(rels) == Cardinality({k \in 1..Len(rels) : IsModelRel(rels[k])})

\* C10: processOPC succeeds only when the package declares exactly one
\* relationship of the model type, and it never gathers auxiliary parts or
\* attachments from several root candidates.
C10_ExactlyOneRoot ==
    (pc = "spawn") =>
        /\ NumModelRels(pkg.rels) = 1
        /\ \A i \in 1..Len(nonRootModels) :
              \E k \in 1..Len(FileRels(pkg, rootFile)) :
                  FileRels(pkg, rootFile)[k] = Rel(RelType3DModel, nonRootModels[i])

\* the attachment list holds no two paths equal ignoring case
NoFoldDup(att) ==
    \A i, j \in 1..Len(att) : i # j => Fold(att[i].Path) # Fold(att[j].Path)

\* C11: after the relationship walk model.Attachments holds no two paths
\* equal ignoring case, and adding a target that differs at most in case from
\* an entry of the list adds nothing and leaves the list as it is, while any
\* other stored target is appended once.
C11_AttachmentsFoldUnique ==
    (pc # "init") =>
        /\ NoFoldDup(model.Attachments)
        /\ \A f \in Files :
              LET r == addAttachment(pkg, model.Attachments, f) IN
              /\ NoFoldDup(r)
              /\ IF \E k \in 1..Len(model.Attachments) :
                        Fold(model.Attachments[k].Path) = Fold(f)
                 THEN r = model.Attachments
                 ELSE r = Append(model.Attachments, [Path |-> f])

\* the walk met t and then T: one entry, the first one, is kept
C11_Witness ==
    /\ pc # "init"
    /\ pkg.rels = <<Rel(RelTypeOther, "t"), Rel(RelTypeOther, "T")>>
    /\ model.Attachments = <<[Path |-> "t"]>>

----------------------------------------------------------------------------
(* UnmarshalModel: the decode of one model document, over a family of      *)
(* documents that hold a subtree no decoder is offered for                 *)

\* most elements nested below the root of a subtree that is skipped
MaxNest == 2

\* the tokens numbered anew: the k-th token ends at offset 10 * k
Renumber(toks) == [k \in 1..Len(toks) |-> [toks[k] EXCEPT !.off = 10 * k]]

\* <model><resources><basematerials id="2"/><object id="1" bad/></resources>
\*  <build><item objectid="1"/></build></model>
BaseDoc ==
    << StartElement(CoreName("model"), 0, FALSE, 0),
       StartElement(CoreName("resources"), 0, FALSE, 0),
       StartElement(CoreName("basematerials"), 0, FALSE, 2),
       EndElement(CoreName("basematerials"), 0),
       StartElement(CoreName("object"), 0, TRUE, 1),
       EndElement(CoreName("object"), 0),
       EndElement(CoreName("resources"), 0),
       StartElement(CoreName("build"), 0, FALSE, 0),
       StartElement(CoreName("item"), 0, FALSE, 1),
       EndElement(CoreName("item"), 0),
       EndElement(CoreName("build"), 0),
       EndElement(CoreName("model"), 0) >>

\* what a subtree nests below its root, n levels deep: elements of a foreign
\* namespace around a core object with a malformed attribute and some text
RECURSIVE Nested(_)
Nested(n) ==
    IF n = 0
    THEN << CharData(0),
            StartElement(CoreName("object"), 0, TRUE, 9),
            EndElement(CoreName("object"), 0) >>
    ELSE <<StartElement(Name(ForeignSpace, "inner"), 0, FALSE, 0)>>
         \o Nested(n - 1)
         \o <<EndElement(Name(ForeignSpace, "inner"), 0)>>

\* a subtree whose root element is named root
Subtree(root, n) ==
    <<StartElement(root, 0, FALSE, 0)>> \o Nested(n) \o <<EndElement(root, 0)>>

\* the names no decoder of BaseDoc is offered a child for, wherever they
\* stand: an element of a foreign namespace and a core element out of place
UnknownRoots == {Name(ForeignSpace, "ext"), CoreName("vertex")}

\* BaseDoc with a subtree put after its i-th token
InsertAt(i, sub) == SubSeq(BaseDoc, 1, i) \o sub \o SubSeq(BaseDoc, i + 1, Len(BaseDoc))

\* the documents decoded, each with the place of its subtree: [doc, at, len]
ScanDocs ==
    {[doc |-> Renumber(InsertAt(i, Subtree(r, n))), at |-> i + 1,
      len |-> Len(Subtree(r, n))] :
        i \in 0..Len(BaseDoc), r \in UnknownRoots, n \in 0..MaxNest}

InitScan ==
    /\ \E d \in ScanDocs :
          pkg = [openErr |-> FALSE, rels |-> <<Rel(RelType3DModel, "root")>>,
                 partRels |-> NoRels, kind |-> [AllOk EXCEPT !["root"] = "doc"],
                 doc |-> d.doc, at |-> d.at, len |-> d.len]
    /\ strict \in BOOLEAN
    /\ dWarnings = <<>>
    /\ nonRootModels = <<>>
    /\ model = [EmptyModel EXCEPT !.Path = "root"]
    /\ pc = "rootopen"
    /\ rootFile = "root"
    /\ ret = NotReturned
    /\ callerDone = FALSE
    /\ cancelAt = "none"
    /\ derivedDone = FALSE
    /\ err = NilErr
    /\ files = <<>>
    /\ task = <<>>
    /\ rootSc = NilScanner
    /\ el = Idle
    /\ call = Idle

\* processRootModel
NextScan ==
    /\ RootOpen \/ RootScan \/ RootPoll \/ RootReturn
    /\ UNCHANGED unitVars

SpecScan == InitScan /\ [][NextScan]_vars

\* the end element matching the start element toks[p]: the first place after
\* p where one more element has ended than has started
MatchingEnd(toks, p) ==
    LET starts(q) == Cardinality({k \in (p + 1)..q : toks[k].k = "start"})
        ends(q) == Cardinality({k \in (p + 1)..q : toks[k].k = "end"})
    IN  CHOOSE q \in (p + 1)..Len(toks) :
            /\ ends(q) = starts(q) + 1
            /\ \A r \in (p + 1)..(q - 1) : ends(r) # starts(r) + 1

\* the warnings without the place they were raised at
Bare(ws) == [k \in 1..Len(ws) |-> [path |-> ws[k].path, el |-> ws[k].el]]

\* C12: when the current decoder offers no child decoder for a start
\* element, the step consumes the tokens through the matching end element
\* and changes nothing else: the decoder stack, the current decoder, the
\* collections and the warnings of the scanner, the model and
\* Decoder.Warnings stay as they are, whatever the subtree nests; the decode
\* goes on with the next sibling, so that the document decodes to what it
\* decodes to without the subtree.
C12_UnknownSubtreeSkipped ==
    /\ [][ (pc = "rootscan" /\ rootSc.running /\ rootSc.pos < Len(pkg.doc)
              /\ pkg.doc[rootSc.pos + 1].k = "start"
              /\ Child(rootSc.currentDecoder, pkg.doc[rootSc.pos + 1], rootSc.IsRoot) = NoDecoder)
           => /\ rootSc' = [rootSc EXCEPT !.pos = MatchingEnd(pkg.doc, rootSc.pos + 1)]
              /\ model' = model
              /\ dWarnings' = dWarnings ]_vars
    /\ [](pc = "done" =>
            LET b == runScan(NewScanner("root", TRUE, strict), Stream(Renumber(BaseDoc), EOF)) IN
            /\ ret = NilErr
            /\ model.Resources = b.Resources
            /\ model.BuildItems = b.BuildItems
            /\ Bare(dWarnings) = Bare(b.Warnings))

\* a subtree nested three levels deep inside the resources element was
\* skipped, and the decode went on to the object that follows it
C12_Witness ==
    /\ pc = "done" /\ ret = NilErr
    /\ pkg.at = 4 /\ pkg.len = 2 * MaxNest + 5
    /\ pkg.doc[pkg.at].name = Name(ForeignSpace, "ext")
    /\ Len(model.Resources) = 2 /\ Len(model.BuildItems) = 1

----------------------------------------------------------------------------
(* The element decoders of decoder.go at work on the tokens of one model   *)
(* document: the document is whatever sequence of elements the reader      *)
(* delivers next                                                           *)

\* most start elements of a document
MaxStarts == 7
\* most elements appended to one collection
MaxSiblings == 2

\* the largest value strconv.ParseUint(s, 10, 24) returns
MaxUint24 == 16777215

\* attribute values: a decimal number, text that is no number, a decimal
\* number beyond the range of a float32 ("1e39"); Absent stands for an
\* attribute the element does not carry
Absent == [t |-> "absent", v |-> 0]
Num(n) == [t |-> "num", v |-> n]
Malformed == [t |-> "text", v |-> 0]
Huge == [t |-> "huge", v |-> 0]

\* the decimal number hi * 2^24 + lo, for the numbers from 2^31 on
Big(hi, lo) == [t |-> "big", v |-> 0, hi |-> hi, lo |-> lo]

\* a word, as the type of an object
Tok(w) == [t |-> "tok", v |-> 0, s |-> w]

Attr(n, v) == [name |-> n, value |-> v]

\* float32 values
F(v) == [inf |-> FALSE, v |-> v]
PlusInf == [inf |-> TRUE, v |-> 0]

\* strconv.ParseUint(s, 10, bits): [val, err]; on a syntax error the value
\* is 0, on a range error the largest value of the width (the numbers of
\* the documents are all below 2^31, but for those written Big(hi, lo))
ParseUint(a, bits) ==
    IF a.t = "big"
    THEN IF bits = 32 /\ a.hi < 256 THEN [val |-> a, err |-> FALSE]
         ELSE [val |-> IF bits = 24 THEN MaxUint24 ELSE Big(255, MaxUint24), err |-> TRUE]
    ELSE IF a.t # "num" THEN [val |-> 0, err |-> TRUE]
    ELSE IF bits = 24 /\ a.v > MaxUint24 THEN [val |-> MaxUint24, err |-> TRUE]
    ELSE [val |-> a.v, err |-> FALSE]

\* the float32 nearest to hi * 2^24 + lo (0 <= lo < 2^24, 0 <= hi), ties to
\* the one whose mantissa is even: a float32 holds the 24 leading bits of a
\* number; e is the number of bits dropped, m the mantissa kept; the value is
\* an integer below 2^31 and Big(hi, lo) from there on
Float32(hi, lo) ==
    LET RECURSIVE Bits(_), Pow2(_)
        Bits(h) == IF h = 0 THEN 0 ELSE 1 + Bits(h \div 2)
        Pow2(n) == IF n = 0 THEN 1 ELSE 2 * Pow2(n - 1)
        e == Bits(hi)
        low == e <= 24
        k == IF low THEN Pow2(24 - e) ELSE Pow2(e - 24)
        s == IF low THEN Pow2(e) ELSE 1
        m == IF low THEN hi * k + lo \div s ELSE hi \div k
        \* the part dropped, against half the spacing
        more == IF low THEN 2 * (lo % s) > s
                ELSE 2 * (hi % k) > k \/ (2 * (hi % k) = k /\ lo > 0)
        tie == IF low THEN 2 * (lo % s) = s
               ELSE 2 * (hi % k) = k /\ lo = 0
        m1 == IF more \/ (tie /\ m % 2 = 1) THEN m + 1 ELSE m
        hi1 == IF low THEN m1 \div k ELSE m1 * k
        lo1 == IF low THEN (m1 % k) * s ELSE 0
    IN  IF e = 0 THEN lo
        ELSE IF hi1 < 128 THEN hi1 * (MaxUint24 + 1) + lo1
        ELSE Big(hi1, lo1)

\* strconv.ParseFloat(s, 32): [val, err]; the value is the float32 nearest to
\* the decimal integer; on a syntax error the value is 0, on a range error it
\* is +Inf (the numbers of the documents are not negative)
ParseFloat(a) ==
    CASE a.t = "num" ->
            [val |-> F(Float32(a.v \div (MaxUint24 + 1), a.v % (MaxUint24 + 1))),
             err |-> FALSE]
      [] a.t = "big" -> [val |-> F(Float32(a.hi, a.lo)), err |-> FALSE]
      [] a.t = "huge" -> [val |-> PlusInf, err |-> TRUE]
      [] OTHER -> [val |-> F(0), err |-> TRUE]

\* the object types, and newObjectType: [val, ok]
ObjectTypes == {"model", "support", "solidsupport", "other"}
newObjectType(a) ==
    IF a.t = "tok" /\ a.s \in ObjectTypes THEN [val |-> a.s, ok |-> TRUE]
    ELSE [val |-> "", ok |-> FALSE]

\* the first attribute named n, dflt when there is none
AttrFirst(attrs, n, dflt) ==
    IF \E k \in 1..Len(attrs) : attrs[k].name = n
    THEN attrs[CHOOSE k \in 1..Len(attrs) :
                  /\ attrs[k].name = n
                  /\ \A j \in 1..(k - 1) : attrs[j].name # n].value
    ELSE dflt

\* encoding.ParseMatrix, encoding.ParseRGBA: whether the text parses
ParsesOk(a) == a.t = "num"

\* the attributes named n, and the value the loop over attrs leaves for n
\* (the last one), dflt when there is none
HasAttr(attrs, n) == \E k \in 1..Len(attrs) : attrs[k].name = n
AttrValue(attrs, n, dflt) ==
    IF HasAttr(attrs, n)
    THEN attrs[CHOOSE k \in 1..Len(attrs) :
                  /\ attrs[k].name = n
                  /\ \A j \in (k + 1)..Len(attrs) : attrs[j].name # n].value
    ELSE dflt

\* the names of the attributes of attrs
Names(attrs) == {attrs[k].name : k \in 1..Len(attrs)}

\* specerr.NewParseAttrError(name, required), one per attribute of failed
NewParseAttrErrors(failed, required) ==
    [k \in 1..Len(failed) |-> [attr |-> failed[k].name, required |-> failed[k].name \in required]]

\* specerr.WrapIndex(errs, element, index); nil when errs is nil
WrapIndex(errs, of, index) ==
    IF errs = <<>> THEN <<>> ELSE <<[of |-> of, index |-> index, errs |-> errs]>>

NilMesh == [nil |-> TRUE]
NewMesh == [nil |-> FALSE, Vertices |-> <<>>, Triangles |-> <<>>]
NilComponents == [nil |-> TRUE]
NoComponents == [nil |-> FALSE, list |-> <<>>]

\* the zero Object of a new objectDecoder
ZeroObject ==
    [ID |-> 0, Type |-> "", Thumbnail |-> Absent, Name |-> Absent, PartNumber |-> Absent,
     PID |-> 0, PIndex |-> 0, Mesh |-> NilMesh, Components |-> NilComponents]
ZeroBaseMaterials == [ID |-> 0, Materials |-> <<>>]
ZeroItem == [ObjectID |-> 0, PartNumber |-> Absent, TransformOk |-> TRUE]
\* the defaults of a triangleDecoder before trianglesDecoder.Start sets them
ZeroDefaults == [defaultPropertyID |-> 0, defaultPropertyIndex |-> 0]

\* a hook's outcome: the state it leaves and the error it returns; el.err
\* holds the error the last Start returned
Out(e, errs) == [e |-> e, errs |-> errs]

\* objectDecoder.Start and parseCoreAttr
objectStart(e, attrs) ==
    LET id == ParseUint(AttrValue(attrs, "id", Num(0)), 32)
        pid == ParseUint(AttrValue(attrs, "pid", Num(0)), 32)
        pindex == ParseUint(AttrValue(attrs, "pindex", Num(0)), 32)
        failed == SelectSeq(attrs, LAMBDA a :
                     \/ a.name \in {"id", "pid", "pindex"} /\ ParseUint(a.value, 32).err
                     \/ a.name = "type" /\ ~newObjectType(a.value).ok)
    IN  Out([e EXCEPT !.obj =
                 [ZeroObject EXCEPT
                     !.ID = id.val, !.PID = pid.val, !.PIndex = pindex.val,
                     !.Type = IF HasAttr(attrs, "type")
                              THEN newObjectType(AttrValue(attrs, "type", Absent)).val ELSE @,
                     !.Thumbnail = AttrValue(attrs, "thumbnail", Absent),
                     !.Name = AttrValue(attrs, "name", Absent),
                     !.PartNumber = AttrValue(attrs, "partnumber", Absent)]],
            WrapIndex(NewParseAttrErrors(failed, {"id"}), "object", Len(e.objects)))

\* objectDecoder.End
objectEnd(e) == [e EXCEPT !.objects = Append(@, e.obj)]

\* meshDecoder.Start
meshStart(e, attrs) == Out([e EXCEPT !.obj.Mesh = NewMesh], <<>>)

\* componentsDecoder.Start
componentsStart(e, attrs) == Out([e EXCEPT !.obj.Components = NoComponents], <<>>)

\* vertexDecoder.Start: every attribute is parsed as a float, and one that
\* fails is reported as a mandatory one
vertexStart(e, attrs) ==
    LET coord(n) == ParseFloat(AttrValue(attrs, n, Num(0))).val
        p == [x |-> coord("x"), y |-> coord("y"), z |-> coord("z")]
        failed == SelectSeq(attrs, LAMBDA a : ParseFloat(a.value).err)
    IN  Out([e EXCEPT !.obj.Mesh.Vertices = Append(@, p)],
            WrapIndex(NewParseAttrErrors(failed, Names(failed)), "vertex",
                      Len(e.obj.Mesh.Vertices)))

\* trianglesDecoder.Start
trianglesStart(e, attrs) ==
    Out([e EXCEPT !.tri = [defaultPropertyID |-> e.obj.PID,
                           defaultPropertyIndex |-> e.obj.PIndex]], <<>>)

\* every value falls back to the default
applyDefaultAlways(val, defVal, noDef) == defVal

\* applyDefault
applyDefault(val, defVal, noDef) == IF noDef THEN val ELSE defVal

\* triangleDecoder.Start: every attribute is parsed as a 24-bit number, and
\* one that fails is reported as mandatory unless it is pid, p1, p2 or p3
triangleStart(e, attrs) ==
    LET u(n) == ParseUint(AttrValue(attrs, n, Num(0)), 24).val
        p1 == applyDefault(u("p1"), e.tri.defaultPropertyIndex, HasAttr(attrs, "p1"))
        p2 == applyDefault(u("p2"), p1, HasAttr(attrs, "p2"))
        p3 == applyDefault(u("p3"), p1, HasAttr(attrs, "p3"))
        pid == applyDefault(u("pid"), e.tri.defaultPropertyID, HasAttr(attrs, "pid"))
        t == [v1 |-> u("v1"), v2 |-> u("v2"), v3 |-> u("v3"),
              pid |-> pid, p1 |-> p1, p2 |-> p2, p3 |-> p3]
        failed == SelectSeq(attrs, LAMBDA a : ParseUint(a.value, 24).err)
    IN  Out([e EXCEPT !.obj.Mesh.Triangles = Append(@, t)],
            WrapIndex(NewParseAttrErrors(failed, Names(failed) \ {"pid", "p1", "p2", "p3"}),
                      "triangle",
                      Len(e.obj.Mesh.Triangles)))

\* componentDecoder.Start
componentStart(e, attrs) ==
    LET oid == ParseUint(AttrValue(attrs, "objectid", Num(0)), 32)
        c == [ObjectID |-> oid.val,
              TransformOk |-> ParsesOk(AttrValue(attrs, "transform", Num(0)))]
        failed == SelectSeq(attrs, LAMBDA a :
                     \/ a.name = "objectid" /\ ParseUint(a.value, 32).err
                     \/ a.name = "transform" /\ ~ParsesOk(a.value))
    IN  Out([e EXCEPT !.obj.Components.list = Append(@, c)],
            WrapIndex(NewParseAttrErrors(failed, {"objectid"}), "component",
                      Len(e.obj.Components.list)))

\* baseMaterialsDecoder.Start: the loop ends at the first id attribute
baseMaterialsStart(e, attrs) ==
    LET id == ParseUint(AttrFirst(attrs, "id", Num(0)), 32)
        failed == IF id.err THEN <<Attr("id", AttrFirst(attrs, "id", Num(0)))>> ELSE <<>>
    IN  Out([e EXCEPT !.bm = [ZeroBaseMaterials EXCEPT !.ID = id.val]],
            WrapIndex(NewParseAttrErrors(failed, {"id"}), "basematerials", Len(e.assets)))

\* baseMaterialsDecoder.End
baseMaterialsEnd(e) == [e EXCEPT !.assets = Append(@, e.bm)]

\* baseMaterialDecoder.Start
baseMaterialStart(e, attrs) ==
    LET b == [Name |-> HasAttr(attrs, "name"),
              ColorOk |-> ParsesOk(AttrValue(attrs, "displaycolor", Num(0)))]
        failed == SelectSeq(attrs, LAMBDA a : a.name = "displaycolor" /\ ~ParsesOk(a.value))
    IN  Out([e EXCEPT !.bm.Materials = Append(@, b)],
            WrapIndex(NewParseAttrErrors(failed, {"displaycolor"}), "base",
                      Len(e.bm.Materials)))

\* buildItemDecoder.Start and parseCoreAttr
buildItemStart(e, attrs) ==
    LET oid == ParseUint(AttrValue(attrs, "objectid", Num(0)), 32)
        failed == SelectSeq(attrs, LAMBDA a :
                     \/ a.name = "objectid" /\ ParseUint(a.value, 32).err
                     \/ a.name = "transform" /\ ~ParsesOk(a.value))
    IN  Out([e EXCEPT !.item = [ObjectID |-> oid.val,
                                PartNumber |-> AttrValue(attrs, "partnumber", Absent),
                                TransformOk |-> ParsesOk(AttrValue(attrs, "transform", Num(0)))]],
            WrapIndex(NewParseAttrErrors(failed, {"objectid"}), "item", Len(e.items)))

\* buildItemDecoder.End
buildItemEnd(e) == [e EXCEPT !.items = Append(@, e.item)]

\* currentDecoder.Start(tp.Attr) of the decoder of kind
ElemStartHook(kind, e, attrs) ==
    CASE kind = "object" -> objectStart(e, attrs)
      [] kind = "mesh" -> meshStart(e, attrs)
      [] kind = "components" -> componentsStart(e, attrs)
      [] kind = "vertex" -> vertexStart(e, attrs)
      [] kind = "triangles" -> trianglesStart(e, attrs)
      [] kind = "triangle" -> triangleStart(e, attrs)
      [] kind = "component" -> componentStart(e, attrs)
      [] kind = "basematerials" -> baseMaterialsStart(e, attrs)
      [] kind = "base" -> baseMaterialStart(e, attrs)
      [] kind = "item" -> buildItemStart(e, attrs)
      [] OTHER -> Out(e, <<>>)

\* currentDecoder.End() of the decoder of kind
ElemEndHook(kind, e) ==
    CASE kind = "object" -> objectEnd(e)
      [] kind = "basematerials" -> baseMaterialsEnd(e)
      [] kind = "item" -> buildItemEnd(e)
      [] OTHER -> e

\* the attribute lists made of one value for each attribute of spec, in
\* order, an Absent value standing for no attribute
RECURSIVE AttrLists(_, _)
AttrLists(spec, k) ==
    IF k > Len(spec) THEN {<<>>}
    ELSE {(IF v = Absent THEN <<>> ELSE <<Attr(spec[k].name, v)>>) \o rest :
            v \in spec[k].values, rest \in AttrLists(spec, k + 1)}

AttrSpec(n, vs) == [name |-> n, values |-> vs]

\* the attributes the elements of the documents carry
AttrsOf(name) ==
    CASE name = "object" ->
            AttrLists(<<AttrSpec("id", {Num(1), Malformed}),
                        AttrSpec("pid", {Absent, Num(5)}),
                        AttrSpec("pindex", {Absent, Num(2)})>>, 1)
      [] name = "vertex" ->
            AttrLists(<<AttrSpec("x", {Num(1), Malformed, Huge}),
                        AttrSpec("y", {Num(2), Malformed}),
                        AttrSpec("z", {Num(3)})>>, 1)
      [] name = "triangle" ->
            AttrLists(<<AttrSpec("v1", {Num(0), Malformed}),
                        AttrSpec("v2", {Num(1)}),
                        AttrSpec("v3", {Num(2)}),
                        AttrSpec("pid", {Absent, Num(7), Malformed}),
                        AttrSpec("p1", {Absent, Num(1)}),
                        AttrSpec("p2", {Absent, Num(3)}),
                        AttrSpec("p3", {Absent, Num(4)})>>, 1)
      [] name = "component" ->
            AttrLists(<<AttrSpec("objectid", {Num(1), Malformed}),
                        AttrSpec("transform", {Absent, Malformed})>>, 1)
      [] name = "basematerials" ->
            AttrLists(<<AttrSpec("id", {Num(2), Malformed})>>, 1)
      [] name = "base" ->
            AttrLists(<<AttrSpec("name", {Num(0)}),
                        AttrSpec("displaycolor", {Num(1), Malformed})>>, 1)
      [] name = "item" ->
            AttrLists(<<AttrSpec("objectid", {Num(1), Malformed}),
                        AttrSpec("transform", {Absent, Malformed})>>, 1)
      [] OTHER -> {<<>>}

\* the core elements of the documents
ElemNames ==
    {"model", "resources", "build", "object", "basematerials", "base", "mesh",
     "vertices", "vertex", "triangles", "triangle", "components", "component", "item"}

\* the child decoder the decoder of kind cur offers for a core element
ChildKind(cur, name) ==
    Child(Dec(cur, 0), [name |-> CoreName(name), id |-> 0], TRUE).kind

\* the collection a new element of kind name is appended to holds fewer than
\* MaxSiblings elements
RoomFor(e, name) ==
    CASE name = "object" -> Len(e.objects) < MaxSiblings
      [] name = "basematerials" -> Len(e.assets) < MaxSiblings
      [] name = "item" -> Len(e.items) < MaxSiblings
      [] name = "vertex" -> Len(e.obj.Mesh.Vertices) < MaxSiblings
      [] name = "triangle" -> Len(e.obj.Mesh.Triangles) < MaxSiblings
      [] name = "component" -> Len(e.obj.Components.list) < MaxSiblings
      [] name = "base" -> Len(e.bm.Materials) < MaxSiblings
      [] OTHER -> TRUE

\* the fields of a decoder are gone once the decoder is popped
Drop(kind, e) ==
    CASE kind = "object" -> [e EXCEPT !.obj = ZeroObject]
      [] kind = "basematerials" -> [e EXCEPT !.bm = ZeroBaseMaterials]
      [] kind = "item" -> [e EXCEPT !.item = ZeroItem]
      [] kind = "triangles" -> [e EXCEPT !.tri = ZeroDefaults]
      [] OTHER -> e

\* the decoders before the first token: currentDecoder is the topLevelDecoder
NewElem ==
    [stack |-> <<"top">>, starts |-> 0,
     tok |-> [k |-> "none", name |-> "", attrs |-> <<>>],
     objects |-> <<>>, assets |-> <<>>, items |-> <<>>,
     obj |-> ZeroObject, bm |-> ZeroBaseMaterials, item |-> ZeroItem,
     tri |-> ZeroDefaults,
     err |-> <<>>]

InitElem ==
    /\ pkg = NoRootPackage
    /\ strict = TRUE
    /\ dWarnings = <<>>
    /\ nonRootModels = <<>>
    /\ model = EmptyModel
    /\ pc = "elements"
    /\ rootFile = ""
    /\ ret = NotReturned
    /\ callerDone = FALSE
    /\ cancelAt = "none"
    /\ derivedDone = FALSE
    /\ err = NilErr
    /\ files = <<>>
    /\ task = <<>>
    /\ rootSc = NilScanner
    /\ el = NewElem
    /\ call = Idle

ElemFrame == <<pkg, strict, dWarnings, nonRootModels, model, pc, rootFile, ret,
               callerDone, cancelAt, derivedDone, err, files, task, rootSc, call>>

\* the decoder of the element being decoded
CurrentKind == el.stack[Len(el.stack)]

\* case xml.StartElement, a child decoder is offered: it is pushed and its
\* Start runs
ElemStart ==
    /\ pc = "elements"
    /\ el.starts < MaxStarts
    /\ \E name \in ElemNames :
          /\ ChildKind(CurrentKind, name) # NoDecoder.kind
          /\ name = "model" => el.starts = 0
          /\ RoomFor(el, name)
          /\ \E attrs \in AttrsOf(name) :
                LET o == ElemStartHook(ChildKind(CurrentKind, name),
                                       [el EXCEPT !.stack = Append(@, ChildKind(CurrentKind, name)),
                                                  !.starts = @ + 1,
                                                  !.tok = [k |-> "start", name |-> name,
                                                           attrs |-> attrs]],
                                       attrs)
                IN  el' = [o.e EXCEPT !.err = o.errs]
    /\ UNCHANGED ElemFrame

\* case xml.StartElement, no child decoder is offered: the subtree is skipped
ElemSkip ==
    /\ pc = "elements"
    /\ el.starts < MaxStarts
    /\ el.starts > 0
    /\ el.tok.k # "skipped"
    /\ \E name \in {"ext", "object"} :
          /\ ChildKind(CurrentKind, name) = NoDecoder.kind
          /\ el' = [el EXCEPT !.starts = @ + 1, !.err = <<>>,
                              !.tok = [k |-> "skipped", name |-> name, attrs |-> <<>>]]
    /\ UNCHANGED ElemFrame

\* case xml.EndElement of the element being decoded: End runs and the
\* decoder is popped
ElemEnd ==
    /\ pc = "elements"
    /\ Len(el.stack) > 1
    /\ el' = [Drop(CurrentKind, ElemEndHook(CurrentKind, el)) EXCEPT
                 !.stack = SubSeq(el.stack, 1, Len(el.stack) - 1),
                 !.err = <<>>,
                 !.tok = [k |-> "end", name |-> CurrentKind, attrs |-> <<>>]]
    /\ UNCHANGED ElemFrame

NextElem == ElemStart \/ ElemSkip \/ ElemEnd

SpecElem == InitElem /\ [][NextElem]_vars

----------------------------------------------------------------------------
(* Properties of the element decoders (SpecElem) *)

\* the step decodes the start element of an element named name
StartsElem(name) == el'.tok.k = "start" /\ el'.tok.name = name /\ el' # el

\* an attribute of the start element just read fails to parse
SomeAttrFails(e) == \E k \in 1..Len(e.tok.attrs) : e.tok.attrs[k].value.t # "num"

\* the collection grew by one element
GrewByOne(after, before) == Len(after) = Len(before) + 1

\* C13: an element with a malformed attribute does not abort the decode: a
\* vertex, triangle, component or base material is appended to its
\* collection exactly once by its Start, an object or a build item by its
\* End, whether or not attributes failed to parse; an error is returned when
\* one did; a vertex has each coordinate that failed to parse set to zero.
C13_MalformedNeverAborts ==
    [][ /\ StartsElem("vertex") =>
              /\ GrewByOne(el'.obj.Mesh.Vertices, el.obj.Mesh.Vertices)
              /\ (SomeAttrFails(el') => el'.err # <<>>)
              /\ \A k \in 1..Len(el'.tok.attrs) :
                    (el'.tok.attrs[k].value.t # "num" =>
                        el'.obj.Mesh.Vertices[Len(el'.obj.Mesh.Vertices)][el'.tok.attrs[k].name] = F(0))
        /\ StartsElem("triangle") =>
              /\ GrewByOne(el'.obj.Mesh.Triangles, el.obj.Mesh.Triangles)
              /\ (SomeAttrFails(el') => el'.err # <<>>)
        /\ StartsElem("component") =>
              /\ GrewByOne(el'.obj.Components.list, el.obj.Components.list)
              /\ (SomeAttrFails(el') => el'.err # <<>>)
        /\ StartsElem("base") =>
              /\ GrewByOne(el'.bm.Materials, el.bm.Materials)
              /\ (SomeAttrFails(el') => el'.err # <<>>)
        /\ (StartsElem("object") \/ StartsElem("basematerials") \/ StartsElem("item")) =>
              (SomeAttrFails(el') => el'.err # <<>>)
        /\ (el'.tok.k = "end" /\ el'.tok.name = "object") =>
              el'.objects = Append(el.objects, el.obj)
        /\ (el'.tok.k = "end" /\ el'.tok.name = "basematerials") =>
              el'.assets = Append(el.assets, el.bm)
        /\ (el'.tok.k = "end" /\ el'.tok.name = "item") =>
              el'.items = Append(el.items, el.item) ]_vars

\* the value of attribute n of the start element just read
Given(n) == AttrValue(el.tok.attrs, n, Absent)

\* C14: a triangle whose property attributes parse is decoded with the pid
\* given, else the owning object's default property id; with the p1 given,
\* else the object's default property index; with the p2 and the p3 given,
\* else the resolved p1.
C14_TrianglePropertyDefaults ==
    (el # Idle /\ el.tok.k = "start" /\ el.tok.name = "triangle"
       /\ \A n \in {"pid", "p1", "p2", "p3"} : Given(n).t \in {"absent", "num"}) =>
        LET t == el.obj.Mesh.Triangles[Len(el.obj.Mesh.Triangles)] IN
        /\ t.pid = IF Given("pid").t = "num" THEN Given("pid").v ELSE el.obj.PID
        /\ t.p1 = IF Given("p1").t = "num" THEN Given("p1").v ELSE el.obj.PIndex
        /\ t.p2 = IF Given("p2").t = "num" THEN Given("p2").v ELSE t.p1
        /\ t.p3 = IF Given("p3").t = "num" THEN Given("p3").v ELSE t.p1

\* an object with defaults (5, 2) holds a triangle that gives p1 = 1 alone:
\* p2 and p3 follow the p1 given, not the object's default index
C14_Witness ==
    /\ el # Idle /\ el.tok.k = "start" /\ el.tok.name = "triangle"
    /\ el.obj.PID = 5 /\ el.obj.PIndex = 2
    /\ Given("pid") = Absent /\ Given("p1") = Num(1)
    /\ Given("p2") = Absent /\ Given("p3") = Absent
    /\ LET t == el.obj.Mesh.Triangles[Len(el.obj.Mesh.Triangles)] IN
       t.pid = 5 /\ t.p1 = 1 /\ t.p2 = 1 /\ t.p3 = 1

\* C16: no committed Object has both a non-nil Mesh and a non-nil
\* Components list.
C16_MeshOrComponents ==
    (el # Idle) =>
        \A k \in 1..Len(el.objects) :
            ~(~el.objects[k].Mesh.nil /\ ~el.objects[k].Components.nil)

----------------------------------------------------------------------------
(* Where the resources of the parts end up (Spec) *)

\* a successful decode of a package with a root part and one auxiliary part
DecodedWithOneAux ==
    /\ pc = "done" /\ ret = NilErr
    /\ Len(nonRootModels) = 1
    /\ nonRootModels[1] # model.Path

\* the elements of a sequence
Elems(s) == {s[k] : k \in 1..Len(s)}

\* C15 as stated: after a successful decode of a package with a root part
\* and one auxiliary model part, model.Resources contains the resources
\* declared in both parts, and Childs[auxiliary path].Resources holds the
\* resources declared in the auxiliary part.
C15_ResourcesOfBothParts ==
    DecodedWithOneAux =>
        LET aux == decodeModelFile(pkg, nonRootModels[1], FALSE, strict).Resources
            root == decodeModelFile(pkg, model.Path, TRUE, strict).Resources
        IN  /\ Elems(root) \cup Elems(aux) \subseteq Elems(model.Resources)
            /\ model.Childs[nonRootModels[1]].Resources = aux

\* C15: after a successful decode of a package with a root part and one
\* auxiliary model part, model.Resources is the list of the resources
\* declared in the root part and holds no resource of the auxiliary part;
\* Childs[auxiliary path].Resources is the list of the resources declared in
\* the auxiliary part.
C15_ResourcesPerPart ==
    DecodedWithOneAux =>
        LET aux == decodeModelFile(pkg, nonRootModels[1], FALSE, strict).Resources
            root == decodeModelFile(pkg, model.Path, TRUE, strict).Resources
        IN  /\ model.Resources = root
            /\ Elems(aux) \cap Elems(model.Resources) = {}
            /\ model.Childs[nonRootModels[1]].Resources = aux

\* the root part declares an object, the auxiliary part a base-materials
\* group: the model holds the object, the child model the group
C15_Witness ==
    /\ DecodedWithOneAux
    /\ pkg.kind[model.Path] = "ok" /\ pkg.kind[nonRootModels[1]] = "small"
    /\ Len(model.Resources) = 1
    /\ model.Resources[1].path = model.Path /\ model.Resources[1].kind = "object"
    /\ Len(model.Childs[nonRootModels[1]].Resources) = 1
    /\ model.Childs[nonRootModels[1]].Resources[1].path = nonRootModels[1]
    /\ model.Childs[nonRootModels[1]].Resources[1].kind = "basematerials"

----------------------------------------------------------------------------
(* The extension points of part_003: ExtensionsAttr.Get and Extensions.Get *)

\* most elements of a bag
MaxBag == 3

\* the interface types
Interfaces == {"interface{}", "MarshalerAttr", "Marshaler", "ObjectPather"}

\* the types with a Marshal3MFAttr method (part_000: pointer receivers), and
\* two element types of extensions with a Marshal3MF method
AttrTypes == {"*BuildAttr", "*ItemAttr", "*ObjectAttr", "*ComponentAttr"}
ElemTypes == {"*ElemA", "*ElemB"}

\* reflect.Type.Implements: typ has the methods of the interface iface; no
\* type of the packages has an ObjectPath method
Implements(typ, iface) ==
    CASE iface = "interface{}" -> TRUE
      [] iface = "MarshalerAttr" -> typ \in AttrTypes \cup {"MarshalerAttr"}
      [] iface = "Marshaler" -> typ \in ElemTypes \cup {"Marshaler"}
      [] iface = "ObjectPather" -> typ = "ObjectPather"
      [] OTHER -> FALSE

\* reflect.Type.AssignableTo for the concrete type of a bag element
AssignableTo(typ, targetType) ==
    \/ typ = targetType
    \/ targetType \in Interfaces /\ Implements(typ, targetType)

\* a nil interface value, and a pointer of type typ: ref 0 is the nil
\* pointer, uuid and path the fields of the struct it points to
NilIface == [type |-> "nil", ref |-> 0, UUID |-> 0, Path |-> 0]
Ptr(typ, ref) == [type |-> typ, ref |-> ref, UUID |-> ref, Path |-> 0]

\* a slice: nil, or a list of elements
NilBag == [nil |-> TRUE, list |-> <<>>]
Bag(l) == [nil |-> FALSE, list |-> l]

\* the target argument: nil, a value that is no pointer, or a pointer to a
\* variable of type elem (a nil pointer, or one to a variable holding mem)
NilTarget == [k |-> "nil", elem |-> "", nil |-> TRUE, mem |-> NilIface]
ValueTarget(typ) == [k |-> "value", elem |-> typ, nil |-> FALSE, mem |-> NilIface]
NilPtrTarget(typ) == [k |-> "ptr", elem |-> typ, nil |-> TRUE, mem |-> NilIface]
PtrTarget(typ, mem) == [k |-> "ptr", elem |-> typ, nil |-> FALSE, mem |-> mem]

\* what a call of Get does: it returns true or false or panics, and leaves
\* mem in the variable the target points to and e in the bag
Returns(b, mem, e) == [ret |-> IF b THEN "true" ELSE "false", msg |-> "", mem |-> mem, e |-> e]
Panics(msg, target, e) == [ret |-> "panic", msg |-> msg, mem |-> target.mem, e |-> e]

\* the highest index of an element assignable to targetType, 0 if none
LastMatch(l, targetType) ==
    IF \E k \in 1..Len(l) : l[k] # NilIface /\ AssignableTo(l[k].type, targetType)
    THEN CHOOSE k \in 1..Len(l) :
            /\ l[k] # NilIface /\ AssignableTo(l[k].type, targetType)
            /\ \A j \in (k + 1)..Len(l) :
                  ~(l[j] # NilIface /\ AssignableTo(l[j].type, targetType))
    ELSE 0

\* for _, v := range e { if v != nil && reflect.TypeOf(v).AssignableTo(targetType) {...} }
\* the index of the element the loop stops at, 0 if it runs to the end
RECURSIVE FirstMatchFrom(_, _, _)
FirstMatchFrom(l, targetType, k) ==
    IF k > Len(l) THEN 0
    ELSE IF l[k] # NilIface /\ AssignableTo(l[k].type, targetType) THEN k
    ELSE FirstMatchFrom(l, targetType, k + 1)

FirstMatch(l, targetType) == FirstMatchFrom(l, targetType, 1)

\* the body shared by ExtensionsAttr.Get and Extensions.Get, marshaler being
\* marshalerAttrType or marshalerType
Get(e, target, marshaler) ==
    IF e.nil \/ Len(e.list) = 0 THEN Returns(FALSE, target.mem, e)
    ELSE IF target.k = "nil" THEN Panics("go3mf: target cannot be nil", target, e)
    ELSE IF target.k # "ptr" \/ target.nil
         THEN Panics("go3mf: target must be a non-nil pointer", target, e)
    ELSE IF target.elem \notin Interfaces /\ ~Implements(target.elem, marshaler)
         THEN Panics(IF marshaler = "MarshalerAttr"
                     THEN "go3mf: *target must be interface or implement AttrMarshaler"
                     ELSE "go3mf: *target must be interface or implement Marshaler",
                     target, e)
    ELSE LET k == FirstMatch(e.list, target.elem) IN
         IF k # 0 THEN Returns(TRUE, e.list[k], e) ELSE Returns(FALSE, target.mem, e)

\* ExtensionsAttr.Get
ExtensionsAttrGet(e, target) == Get(e, target, "MarshalerAttr")

\* Extensions.Get
ExtensionsGet(e, target) == Get(e, target, "Marshaler")

\* the elements a bag of the kind may hold: nil, nil pointers and pointers
\* to two values of two types
BagElems(types) == {NilIface} \cup {Ptr(t, r) : t \in types, r \in 0..2}

Bags(types) == {NilBag} \cup {Bag(l) : l \in SeqsUpTo(BagElems(types), MaxBag)}

\* the targets: nil, values, nil pointers, pointers to variables of pointer,
\* struct and interface types that hold their zero value or an earlier one
TargetsOf(types) ==
    {NilTarget, ValueTarget("ItemAttr"), ValueTarget("int")}
    \cup {NilPtrTarget(t) : t \in types}
    \cup {PtrTarget(t, NilIface) : t \in Interfaces}
    \cup {PtrTarget(t, Ptr(t, 0)) : t \in types \cup {"*UnknownSpec"}}
    \cup {PtrTarget(t, Ptr(t, 3)) : t \in types}
    \cup {PtrTarget("ItemAttr", NilIface), PtrTarget("int", NilIface)}

\* a call not made yet
Called(fn, e, target) == [fn |-> fn, e |-> e, target |-> target, done |-> FALSE,
                          out |-> Returns(FALSE, target.mem, e)]

UnitFrame == <<pkg, strict, dWarnings, nonRootModels, model, pc, rootFile, ret,
               callerDone, cancelAt, derivedDone, err, files, task, rootSc, el>>

InitUnit ==
    /\ pkg = NoRootPackage
    /\ strict = TRUE
    /\ dWarnings = <<>>
    /\ nonRootModels = <<>>
    /\ model = EmptyModel
    /\ pc = "call"
    /\ rootFile = ""
    /\ ret = NotReturned
    /\ callerDone = FALSE
    /\ cancelAt = "none"
    /\ derivedDone = FALSE
    /\ err = NilErr
    /\ files = <<>>
    /\ task = <<>>
    /\ rootSc = NilScanner
    /\ el = Idle

InitGet ==
    /\ InitUnit
    /\ call \in {Called("ExtensionsAttr.Get", e, t) :
                    e \in Bags({"*ItemAttr", "*ObjectAttr"}),
                    t \in TargetsOf({"*ItemAttr", "*ObjectAttr"})}
          \cup {Called("Extensions.Get", e, t) :
                    e \in Bags(ElemTypes), t \in TargetsOf(ElemTypes)}

\* e.Get(target) on an ExtensionsAttr
CallAttrGet ==
    /\ pc = "call" /\ call.fn = "ExtensionsAttr.Get" /\ ~call.done
    /\ call' = [call EXCEPT !.done = TRUE, !.out = ExtensionsAttrGet(call.e, call.target)]
    /\ UNCHANGED UnitFrame

\* e.Get(target) on an Extensions
CallGet ==
    /\ pc = "call" /\ call.fn = "Extensions.Get" /\ ~call.done
    /\ call' = [call EXCEPT !.done = TRUE, !.out = ExtensionsGet(call.e, call.target)]
    /\ UNCHANGED UnitFrame

NextGet == CallAttrGet \/ CallGet

SpecGet == InitGet /\ [][NextGet]_vars

\* a call of one of the two Get was made
GetDone == call # Idle /\ call.fn \in {"ExtensionsAttr.Get", "Extensions.Get"} /\ call.done

\* the marshaler interface of the bag the call is made on
MarshalerOf(fn) == IF fn = "ExtensionsAttr.Get" THEN "MarshalerAttr" ELSE "Marshaler"

\* the target is a non-nil pointer to a type that implements the marshaler
\* interface or to an interface type
ValidTarget(target, marshaler) ==
    /\ target.k = "ptr" /\ ~target.nil
    /\ target.elem \in Interfaces \/ Implements(target.elem, marshaler)

\* the indices of the non-nil elements whose concrete type is assignable to
\* the target type
Matches(e, target) ==
    {k \in 1..Len(e.list) : e.list[k] # NilIface /\ AssignableTo(e.list[k].type, target.elem)}

\* C17: given a valid target, ExtensionsAttr.Get and Extensions.Get return
\* true and set the target to the lowest-index non-nil element of the bag
\* whose concrete type is assignable to the target type; if no element
\* matches they return false and leave the target unchanged; either way
\* the bag is not modified.
C17_FirstAssignableWins ==
    (GetDone /\ ValidTarget(call.target, MarshalerOf(call.fn))) =>
        LET ms == Matches(call.e, call.target) IN
        /\ call.out.e = call.e
        /\ ms # {} =>
              /\ call.out.ret = "true"
              /\ \E k \in ms : (\A j \in ms : k <= j) /\ call.out.mem = call.e.list[k]
        /\ ms = {} =>
              /\ call.out.ret = "false"
              /\ call.out.mem = call.target.mem

\* a bag holds nil, then two different pointers of the target's type: the
\* target, which held an earlier value, is set to the first of the two
C17_Witness ==
    /\ GetDone /\ call.fn = "ExtensionsAttr.Get"
    /\ call.e = Bag(<<NilIface, Ptr("*ObjectAttr", 1), Ptr("*ItemAttr", 1), Ptr("*ItemAttr", 2)>>)
       \/ call.e = Bag(<<NilIface, Ptr("*ItemAttr", 1), Ptr("*ItemAttr", 2)>>)
    /\ call.target = PtrTarget("*ItemAttr", Ptr("*ItemAttr", 3))
    /\ call.out.ret = "true" /\ call.out.mem = Ptr("*ItemAttr", 1)

\* C18: ExtensionsAttr.Get and Extensions.Get panic whenever the target is
\* not a non-nil pointer to a type that implements the marshaler interface
\* or to an interface type, for every bag including the nil and the empty
\* bag.
C18_InvalidTargetPanics ==
    (GetDone /\ ~ValidTarget(call.target, MarshalerOf(call.fn))) => call.out.ret = "panic"

----------------------------------------------------------------------------
(* The production extension's BeforeEncode (part_000) *)

\* most calls of BeforeEncode on one model
MaxCalls == 2

\* &T{Path: path, UUID: uuid}: a production attribute; UUID 0 is the empty
\* string
ProdAttr(typ, path, uuid) == [type |-> typ, ref |-> 1, UUID |-> uuid, Path |-> path]

\* uuid.New(): a new, non-empty UUID for the entity at place at in call n
NewUUID(n, at) == 100 * n + at

\* append(a, v) on an ExtensionsAttr
AppendAttr(a, v) == Bag(Append(a.list, v))

\* var attr *T; if !a.Get(&attr) { a = append(a, &T{UUID: uuid.New()}) }
EnsureAttr(a, typ, uuid) ==
    IF ExtensionsAttrGet(a, PtrTarget(typ, Ptr(typ, 0))).ret = "true" THEN a
    ELSE AppendAttr(a, ProdAttr(typ, 0, uuid))

\* Spec.BeforeEncode, the n-th call; WalkObjects visits every object
BeforeEncode(sp, m, n) ==
    IF sp.DisableAutoUUID THEN m
    ELSE [Build |-> [AnyAttr |-> EnsureAttr(m.Build.AnyAttr, "*BuildAttr", NewUUID(n, 0)),
                     Items |-> [i \in DOMAIN m.Build.Items |->
                                  [AnyAttr |-> EnsureAttr(m.Build.Items[i].AnyAttr, "*ItemAttr",
                                                          NewUUID(n, i))]]],
          Objects |-> [i \in DOMAIN m.Objects |->
                         [AnyAttr |-> EnsureAttr(m.Objects[i].AnyAttr, "*ObjectAttr",
                                                 NewUUID(n, 10 * i)),
                          Components |-> [c \in DOMAIN m.Objects[i].Components |->
                                            [AnyAttr |-> EnsureAttr(m.Objects[i].Components[c].AnyAttr,
                                                                    "*ComponentAttr",
                                                                    NewUUID(n, 10 * i + c))]]]]]

\* the attribute bags an entity whose production attribute has type typ may
\* carry before the encode: none, an attribute with a UUID, an attribute
\* with a path and no UUID, a nil pointer, another kind's attribute
AnyAttrs(typ) ==
    {NilBag,
     Bag(<<ProdAttr(typ, 0, 7)>>),
     Bag(<<ProdAttr(typ, IF typ \in {"*ItemAttr", "*ComponentAttr"} THEN 1 ELSE 0, 0)>>),
     Bag(<<Ptr(typ, 0)>>),
     Bag(<<NilIface, ProdAttr(IF typ = "*ItemAttr" THEN "*ObjectAttr" ELSE "*ItemAttr", 0, 8)>>)}

\* models with a build of one item and one object of one component
EncodeModels ==
    {[Build |-> [AnyAttr |-> b, Items |-> <<[AnyAttr |-> i]>>],
      Objects |-> <<[AnyAttr |-> o, Components |-> <<[AnyAttr |-> c]>>]>>] :
        b \in AnyAttrs("*BuildAttr"), i \in AnyAttrs("*ItemAttr"),
        o \in AnyAttrs("*ObjectAttr"), c \in AnyAttrs("*ComponentAttr")}

InitEncode ==
    /\ InitUnit
    /\ call \in {[fn |-> "BeforeEncode", s |-> [DisableAutoUUID |-> d], m |-> m,
                  first |-> m, prev |-> m, calls |-> 0] :
                    d \in BOOLEAN, m \in EncodeModels}

\* s.BeforeEncode(m)
CallBeforeEncode ==
    /\ pc = "call" /\ call.fn = "BeforeEncode"
    /\ call.calls < MaxCalls
    /\ call' = [call EXCEPT !.calls = @ + 1, !.prev = call.m,
                            !.m = BeforeEncode(call.s, call.m, call.calls + 1)]
    /\ UNCHANGED UnitFrame

NextEncode == CallBeforeEncode

SpecEncode == InitEncode /\ [][NextEncode]_vars

\* BeforeEncode was called
Encoded == call # Idle /\ call.fn = "BeforeEncode" /\ call.calls > 0

\* the pairs <<attribute bag before the first call, bag now, attribute
\* type>> of the entities of the model: the build, the items, the objects
\* and their components
Entities ==
    {<<call.first.Build.AnyAttr, call.m.Build.AnyAttr, "*BuildAttr">>}
    \cup {<<call.first.Build.Items[i].AnyAttr, call.m.Build.Items[i].AnyAttr, "*ItemAttr">> :
             i \in DOMAIN call.m.Build.Items}
    \cup {<<call.first.Objects[i].AnyAttr, call.m.Objects[i].AnyAttr, "*ObjectAttr">> :
             i \in DOMAIN call.m.Objects}
    \cup UNION {{<<call.first.Objects[i].Components[c].AnyAttr,
                   call.m.Objects[i].Components[c].AnyAttr, "*ComponentAttr">> :
                    c \in DOMAIN call.m.Objects[i].Components} : i \in DOMAIN call.m.Objects}

\* C19: after BeforeEncode runs with DisableAutoUUID false, the build, every
\* build item, every object and every component carries a production
\* attribute of its kind with a non-empty UUID; an entity that already had
\* a UUID keeps it and gets no second attribute, so a second call appends
\* nothing; with DisableAutoUUID true the model is left unchanged.
C19_EveryEntityHasUUID ==
    Encoded =>
        IF call.s.DisableAutoUUID THEN call.m = call.first
        ELSE /\ \A en \in Entities :
                   /\ \E k \in 1..Len(en[2].list) :
                         /\ en[2].list[k].type = en[3]
                         /\ en[2].list[k].ref # 0
                         /\ en[2].list[k].UUID # 0
                   /\ (\E k \in 1..Len(en[1].list) :
                          en[1].list[k].type = en[3] /\ en[1].list[k].UUID # 0)
                      => en[2] = en[1]
             /\ call.calls > 1 => call.m = call.prev

----------------------------------------------------------------------------
(* The metadata name decoder: metadataDecoder.Start of decoder.go *)

\* most characters of an attribute value
MaxValueLen == 3

\* the characters of the attribute values, and the values: strings are
\* sequences of characters
Chars == {"p", "q", ":"}
Values == SeqsUpTo(Chars, MaxValueLen)

\* the prefixes a document may declare
Prefixes == {<<"p">>, <<"q">>, <<"p", "q">>}

\* the last index of c in the bytes b, counted from 0, -1 if there is none
LastIndexByte(b, c) ==
    IF \E k \in 1..Len(b) : b[k] = c
    THEN (CHOOSE k \in 1..Len(b) : b[k] = c /\ \A j \in (k + 1)..Len(b) : b[j] # c) - 1
    ELSE -1

\* bytes.IndexByte(b, c): the first index of c in b, counted from 0, -1 if
\* there is none
IndexByte(b, c) ==
    IF \E k \in 1..Len(b) : b[k] = c
    THEN (CHOOSE k \in 1..Len(b) : b[k] = c /\ \A j \in 1..(k - 1) : b[j] # c) - 1
    ELSE -1

\* d.ctx.namespace(prefix): whether the prefix is declared in the document
namespace(declared, prefix) == [ok |-> prefix \in declared]

\* an attribute of the metadata element
MetaAttr(space, local, value) == [Name |-> [Space |-> space, Local |-> local], Value |-> value]

\* the name attribute handled by the case attrName
metadataName(md, a, declared) ==
    LET i == IndexByte(a.Value, ":") IN
    IF i < 0 THEN [md EXCEPT !.Name = [a.Name EXCEPT !.Local = a.Value]]
    ELSE IF namespace(declared, SubSeq(a.Value, 1, i)).ok
         THEN [md EXCEPT !.Name = [Space |-> SubSeq(a.Value, 1, i),
                                   Local |-> SubSeq(a.Value, i + 2, Len(a.Value))]]
    ELSE [md EXCEPT !.Name = [a.Name EXCEPT !.Local = a.Value]]

\* metadataDecoder.Start: attributes with a namespace are passed over
RECURSIVE metadataStart(_, _, _, _)
metadataStart(md, attrs, declared, k) ==
    IF k > Len(attrs) THEN md
    ELSE IF attrs[k].Name.Space # <<>> THEN metadataStart(md, attrs, declared, k + 1)
    ELSE IF attrs[k].Name.Local = <<"name">>
         THEN metadataStart(metadataName(md, attrs[k], declared), attrs, declared, k + 1)
    ELSE metadataStart(md, attrs, declared, k + 1)

\* the zero Metadata of a new metadataDecoder
ZeroMetadata == [Name |-> [Space |-> <<>>, Local |-> <<>>]]

\* the attribute lists of a metadata element: a name attribute, alone or
\* next to an attribute called name of another namespace
MetaAttrs ==
    {<<MetaAttr(<<>>, <<"name">>, v)>> : v \in Values}
    \cup {<<MetaAttr(<<>>, <<"name">>, v), MetaAttr(<<"q">>, <<"name">>, <<"q", ":", "p">>)>> :
             v \in Values}

InitMeta ==
    /\ InitUnit
    /\ call \in {[fn |-> "metadataDecoder.Start", attrs |-> a, declared |-> d,
                  done |-> FALSE, metadata |-> ZeroMetadata] :
                    a \in MetaAttrs, d \in SUBSET Prefixes}

\* currentDecoder.Start(attrs) on a metadata element
CallMetadataStart ==
    /\ pc = "call" /\ call.fn = "metadataDecoder.Start" /\ ~call.done
    /\ call' = [call EXCEPT !.done = TRUE,
                            !.metadata = metadataStart(call.metadata, call.attrs, call.declared, 1)]
    /\ UNCHANGED UnitFrame

NextMeta == CallMetadataStart

SpecMeta == InitMeta /\ [][NextMeta]_vars

\* the metadata element's Start has run
MetaDone == call # Idle /\ call.fn = "metadataDecoder.Start" /\ call.done

\* the value v reads prefix:local with the colon, its first, at place k
SplitsAt(v, k) == k \in 1..Len(v) /\ v[k] = ":" /\ \A j \in 1..(k - 1) : v[j] # ":"

\* C20: a metadata name attribute prefix:local is split at its first colon
\* into a namespace part and a local part if and only if the prefix is
\* declared in the enclosing document; in every other case (no colon, or a
\* prefix that is not declared) the namespace part is empty and the local
\* name is the whole attribute value.
C20_NameSplitIffDeclared ==
    MetaDone =>
        LET v == call.attrs[1].Value
            n == call.metadata.Name
        IN  IF \E k \in 1..Len(v) : SplitsAt(v, k) /\ SubSeq(v, 1, k - 1) \in call.declared
            THEN \E k \in 1..Len(v) :
                    /\ SplitsAt(v, k)
                    /\ n.Space = SubSeq(v, 1, k - 1)
                    /\ n.Local = SubSeq(v, k + 1, Len(v))
            ELSE n.Space = <<>> /\ n.Local = v

\* the name p::, with p declared, is split at the first of its two colons
C20_Witness ==
    /\ MetaDone
    /\ call.attrs[1].Value = <<"p", ":", ":">>
    /\ call.declared = {<<"p">>}
    /\ call.metadata.Name = [Space |-> <<"p">>, Local |-> <<":">>]

----------------------------------------------------------------------------
(* The stacks of decodeModelFile (SpecScan) *)

\* the elements of toks that are open, and those that have ended, in the
\* order of their end elements, once pos tokens are read, the tokens from
\* lo to hi being those of a skipped subtree; elements are named by their
\* start elements
RECURSIVE Walk(_, _, _, _, _, _)
Walk(toks, k, pos, lo, hi, w) ==
    IF k > pos THEN w
    ELSE IF k >= lo /\ k <= hi THEN Walk(toks, k + 1, pos, lo, hi, w)
    ELSE IF toks[k].k = "start"
         THEN Walk(toks, k + 1, pos, lo, hi, [w EXCEPT !.open = Append(@, toks[k])])
    ELSE IF toks[k].k = "end"
         THEN Walk(toks, k + 1, pos, lo, hi,
                   [open |-> SubSeq(w.open, 1, Len(w.open) - 1),
                    ended |-> Append(w.ended, w.open[Len(w.open)])])
    ELSE Walk(toks, k + 1, pos, lo, hi, w)

\* the accepted elements of the document being scanned, after the tokens
\* the root scanner has read
Accepted ==
    Walk(pkg.doc, 1, rootSc.pos, pkg.at, pkg.at + pkg.len - 1, [open |-> <<>>, ended |-> <<>>])

\* what the End of the elements commits: the resources, the build items
Committed(ended, kinds) ==
    LET e == SelectSeq(ended, LAMBDA t : t.name.Local \in kinds) IN
    [k \in 1..Len(e) |-> [kind |-> e[k].name.Local, id |-> e[k].id]]

\* kind and id of the entries of a collection of the scanner
KindIds(c, dflt) ==
    [k \in 1..Len(c) |-> [kind |-> IF "kind" \in DOMAIN c[k] THEN c[k].kind ELSE dflt,
                          id |-> c[k].id]]

\* C21: on a well-nested token stream decodeModelFile keeps the decoder
\* stack and the name stack at the same length, the nesting depth of the
\* open accepted elements: the stacks hold the decoders and the names of
\* those elements, outermost first; an end element never pops an empty
\* stack; End has run exactly once for each accepted element that has
\* ended, innermost first, so the resources and build items committed are
\* those of the ended elements in the order of their end elements; at the
\* end of the stream the stack is empty and every accepted element is
\* committed.
C21_StacksFollowNesting ==
    (pc \in {"rootscan", "rootret", "done"} /\ rootSc # NilScanner) =>
        LET a == Accepted
            top == rootSc.currentDecoder
        IN  /\ Len(rootSc.state) = Len(rootSc.names)
            /\ Len(rootSc.state) = Len(a.open)
            /\ rootSc.names \o <<rootSc.currentName>>
                  = <<ZeroName>> \o [k \in 1..Len(a.open) |-> a.open[k].name]
            /\ [k \in 1..Len(rootSc.state) |-> rootSc.state[k].kind] \o <<top.kind>>
                  = <<"top">> \o [k \in 1..Len(a.open) |-> a.open[k].name.Local]
            /\ KindIds(rootSc.Resources, "") = Committed(a.ended, {"object", "basematerials"})
            /\ KindIds(rootSc.BuildItems, "item") = Committed(a.ended, {"item"})
            /\ (rootSc.running /\ rootSc.pos < Len(pkg.doc)
                  /\ pkg.doc[rootSc.pos + 1].k = "end"
                  /\ pkg.doc[rootSc.pos + 1].name = rootSc.currentName)
               => Len(rootSc.state) > 0
            /\ ~rootSc.running =>
                  /\ rootSc.pos = Len(pkg.doc) /\ rootSc.Err = NilErr
                  /\ rootSc.state = <<>> /\ rootSc.names = <<>>
                  /\ top = Dec("top", 0)
                  /\ Len(rootSc.Resources) = 2 /\ Len(rootSc.BuildItems) = 1

\* a subtree inside the resources element was skipped and the base
\* materials committed; the object that follows is open, three decoders
\* below it on the stack
C21_Witness ==
    /\ pc = "rootscan" /\ rootSc # NilScanner /\ rootSc.running
    /\ pkg.at = 5 /\ rootSc.pos = pkg.at + pkg.len
    /\ Len(rootSc.state) = 3 /\ Len(rootSc.names) = 3
    /\ rootSc.currentDecoder.kind = "object"
    /\ Len(rootSc.Resources) = 1

----------------------------------------------------------------------------
(* The end of a scan: documents cut short, read errors and cancellation    *)

\* the bytes of a token in the large documents
BigToken == 3000000

\* the tokens with the k-th token ending at offset size * k
Offsets(toks, size) == [k \in 1..Len(toks) |-> [toks[k] EXCEPT !.off = size * k]]

\* BaseDoc with a foreign subtree at every place, whole or cut after any
\* token, of small or large tokens: [doc, at, len]
CutDocs ==
    {[doc |-> Offsets(SubSeq(InsertAt(i, Subtree(Name(ForeignSpace, "ext"), 1)), 1, n), size),
      at |-> i + 1, len |-> Len(Subtree(Name(ForeignSpace, "ext"), 1))] :
        i \in 0..Len(BaseDoc),
        n \in 0..(Len(BaseDoc) + Len(Subtree(Name(ForeignSpace, "ext"), 1))),
        size \in {10, BigToken}}

\* the stream of the root part ends with io.EOF ("doc") or with a read
\* error ("cut")
InitCut ==
    /\ \E d \in CutDocs, k \in {"doc", "cut"} :
          pkg = [openErr |-> FALSE, rels |-> <<Rel(RelType3DModel, "root")>>,
                 partRels |-> NoRels, kind |-> [AllOk EXCEPT !["root"] = k],
                 doc |-> d.doc, at |-> d.at, len |-> d.len]
    /\ strict = TRUE
    /\ dWarnings = <<>>
    /\ nonRootModels = <<>>
    /\ model = [EmptyModel EXCEPT !.Path = "root"]
    /\ pc = "rootopen"
    /\ rootFile = "root"
    /\ ret = NotReturned
    /\ callerDone = FALSE
    /\ cancelAt = "none"
    /\ derivedDone = FALSE
    /\ err = NilErr
    /\ files = <<>>
    /\ task = <<>>
    /\ rootSc = NilScanner
    /\ el = Idle
    /\ call = Idle

\* processRootModel under a context the caller may cancel
NextCut == NextScan \/ Cancel

SpecCut == InitCut /\ [][NextCut]_vars

\* the step is an iteration of the loop of decodeModelFile on the root part
ScanIteration == pc = "rootscan" /\ rootSc # NilScanner /\ rootSc.running /\ rootSc' # rootSc

\* the tokens from lo to hi hold as many start as end elements
Balanced(toks, lo, hi) ==
    Cardinality({k \in lo..hi : toks[k].k = "start"})
        = Cardinality({k \in lo..hi : toks[k].k = "end"})

\* C22: a scan stops at the first token-read error, subtree-skip error or
\* observed cancellation: a scan that goes on has met no error, and once it
\* has stopped no token is read and no hook runs. The end of the stream,
\* and only it, yields a nil scan error; every other error is the scan's
\* terminal error, unchanged.
C22_StopsAtFirstError ==
    /\ []((rootSc # NilScanner /\ rootSc.running) => rootSc.Err = NilErr)
    /\ [][ (rootSc # NilScanner /\ ~rootSc.running) =>
              /\ rootSc'.pos = rootSc.pos
              /\ rootSc'.Warnings = rootSc.Warnings
              /\ rootSc'.Resources = rootSc.Resources
              /\ rootSc'.BuildItems = rootSc.BuildItems
              /\ rootSc'.state = rootSc.state
              /\ rootSc'.currentDecoder = rootSc.currentDecoder ]_vars
    /\ [][ ScanIteration =>
              LET x == StreamOf(pkg, rootFile)
                  tokens == \* the stream ran out: Token() or Skip() failed
                      \/ rootSc.pos = Len(x.toks)
                      \/ /\ rootSc.pos < Len(x.toks)
                         /\ x.toks[rootSc.pos + 1].k = "start"
                         /\ Child(rootSc.currentDecoder, x.toks[rootSc.pos + 1], TRUE) = NoDecoder
                         /\ \A q \in (rootSc.pos + 1)..Len(x.toks) :
                               ~Balanced(x.toks, rootSc.pos + 1, q)
                  canceled == \* an end element was read, the context polled
                      /\ rootSc.pos < Len(x.toks)
                      /\ x.toks[rootSc.pos + 1].k = "end"
                      /\ x.toks[rootSc.pos + 1].off > rootSc.nextBytesCheck
                      /\ callerDone
              IN  /\ rootSc'.running <=> ~(tokens \/ canceled)
                  /\ tokens => /\ rootSc'.Err = IF x.end = EOF THEN NilErr ELSE x.end
                               /\ rootSc'.Warnings = rootSc.Warnings
                               /\ rootSc'.Resources = rootSc.Resources
                  /\ canceled => rootSc'.Err = Canceled
                  /\ (~rootSc'.running /\ rootSc'.Err = NilErr) =>
                        (rootSc'.pos = Len(x.toks) /\ x.end = EOF) ]_vars

\* the stream broke inside a subtree that was being skipped, after the base
\* materials were committed: the scan has stopped with the read error
C22_Witness ==
    /\ pc = "rootscan" /\ rootSc # NilScanner /\ ~rootSc.running
    /\ pkg.kind["root"] = "cut"
    /\ rootSc.Err = Err("unexpected EOF", "root")
    /\ rootSc.pos = Len(pkg.doc)
    /\ pkg.at <= Len(pkg.doc) /\ Len(pkg.doc) < pkg.at + pkg.len - 1
    /\ Len(rootSc.Resources) = 1

----------------------------------------------------------------------------
(* The cancellation polls of a scan (SpecCut) *)

\* the token the iteration reads
NextToken == pkg.doc[rootSc.pos + 1]

\* an iteration that reads a token of the document
ReadsToken == ScanIteration /\ rootSc.pos < Len(pkg.doc)

\* the select on ctx.Done() was made in the step
Polled == rootSc'.polls = rootSc.polls + 1

\* the offset at which the context was last polled once pos tokens are
\* read, 0 before the first poll; the tokens from lo to hi are those of the
\* skipped subtree; h is [polls, last]
RECURSIVE LastPoll(_, _, _, _, _, _)
LastPoll(toks, k, pos, lo, hi, h) ==
    IF k > pos THEN h
    ELSE IF (k < lo \/ k > hi) /\ toks[k].k = "end"
            /\ toks[k].off > checkEveryBytes * (h.polls + 1)
         THEN LastPoll(toks, k + 1, pos, lo, hi, [polls |-> h.polls + 1, last |-> toks[k].off])
    ELSE LastPoll(toks, k + 1, pos, lo, hi, h)

LastPollOffset ==
    LastPoll(pkg.doc, 1, rootSc.pos, pkg.at, pkg.at + pkg.len - 1,
             [polls |-> 0, last |-> 0]).last

\* C23 as stated: the context is polled after an end element exactly when
\* the bytes consumed since the previous poll (since the start of the part
\* for the first poll) exceed 4 MiB.
C23_PolledEveryFourMiB ==
    [][ (ReadsToken /\ NextToken.k = "end") =>
           (Polled <=> NextToken.off - LastPollOffset > checkEveryBytes) ]_vars

\* C23: the context is polled, without blocking, after an end element
\* exactly when the offset exceeds 4 MiB times one more than the number of
\* polls made so far, which is the case whenever more than 4 MiB were
\* consumed since the previous poll; it is never polled on a start element,
\* on character data or for the end elements a skip consumes; a poll that
\* finds the context canceled ends the scan with the cancellation error,
\* any other lets it go on; a part whose offset never exceeds 4 MiB is
\* scanned to its end even when the context is canceled.
C23_PolledPastThreshold ==
    /\ [][ ReadsToken =>
              /\ rootSc'.polls \in {rootSc.polls, rootSc.polls + 1}
              /\ Polled <=> (NextToken.k = "end"
                               /\ NextToken.off > checkEveryBytes * (rootSc.polls + 1))
              /\ (NextToken.k = "end" /\ NextToken.off - LastPollOffset > checkEveryBytes)
                    => Polled
              /\ (Polled /\ callerDone) => (~rootSc'.running /\ rootSc'.Err = Canceled)
              /\ (Polled /\ ~callerDone) => (rootSc'.running /\ rootSc'.Err = NilErr)
              /\ ~Polled => rootSc'.Err # Canceled ]_vars
    /\ []((pc = "rootscan" /\ rootSc # NilScanner /\ ~rootSc.running
             /\ \A k \in 1..Len(pkg.doc) : pkg.doc[k].off <= checkEveryBytes)
          => (rootSc.polls = 0 /\ rootSc.pos = Len(pkg.doc) /\ rootSc.Err # Canceled))

\* the context was polled at the end of the object and again at the end of
\* the resources element, 3000000 bytes further, and found canceled there
C23_Witness ==
    /\ pc = "rootscan" /\ rootSc # NilScanner /\ ~rootSc.running
    /\ rootSc.Err = Canceled
    /\ rootSc.polls >= 2
    /\ pkg.doc[rootSc.pos].name = CoreName("resources")
    /\ pkg.doc[rootSc.pos - 1].name = CoreName("object")
    /\ pkg.doc[rootSc.pos].off - LastPoll(pkg.doc, 1, rootSc.pos - 1, pkg.at,
                                          pkg.at + pkg.len - 1,
                                          [polls |-> 0, last |-> 0]).last < checkEveryBytes

----------------------------------------------------------------------------
(* One level of indirection in the relationship walk (SpecOPC) *)

\* the relationships of a list that have the model type, or another type,
\* and a target stored in the package
ModelRelsOf(rels) ==
    {rels[k] : k \in {j \in 1..Len(rels) : rels[j].Type = RelType3DModel /\ Exists(pkg, rels[j].Path)}}
PlainRelsOf(rels) ==
    {rels[k] : k \in {j \in 1..Len(rels) : rels[j].Type # RelType3DModel /\ Exists(pkg, rels[j].Path)}}

PathsOf(rels) == {r.Path : r \in rels}

\* the parts the package relationships name as root model part, and the
\* parts their model-type relationships name
RootParts == PathsOf(ModelRelsOf(pkg.rels))
AuxParts == UNION {PathsOf(ModelRelsOf(FileRels(pkg, r))) : r \in RootParts}

\* C24: the relationship walk follows one level of indirection only. The
\* auxiliary model parts are exactly the existing targets of the model-type
\* relationships of the root part, and so are the entries of the child
\* table; a model-type relationship of an auxiliary part registers nothing;
\* a ChildModel records the non-model relationships of its own part, and an
\* attachment is in the model only if a package relationship, a
\* relationship of the root part or a relationship of an auxiliary part
\* discovered from the root names it.
C24_OneLevelOfIndirection ==
    (pc = "spawn") =>
        /\ Elems(nonRootModels) = AuxParts
        /\ DOMAIN model.Childs = AuxParts
        /\ \A f \in DOMAIN model.Childs :
              Elems(model.Childs[f].Relationships) = PlainRelsOf(FileRels(pkg, f))
        /\ \A k \in 1..Len(model.Attachments) :
              model.Attachments[k].Path \in
                  PathsOf(PlainRelsOf(pkg.rels))
                  \cup UNION {PathsOf(PlainRelsOf(FileRels(pkg, f))) : f \in RootParts \cup AuxParts}
        /\ \A f \in RootParts \cup AuxParts :
              \A r \in PlainRelsOf(FileRels(pkg, f)) :
                  \E k \in 1..Len(model.Attachments) :
                      EqualFold(model.Attachments[k].Path, r.Path)

\* the root part names the auxiliary part a alone; a names the model part b
\* and the attachment t: b is no auxiliary part and has no child entry, and
\* a's ChildModel records the relationship to t
C24_Witness ==
    /\ pc = "spawn"
    /\ pkg.rels = <<Rel(RelType3DModel, "root")>>
    /\ pkg.partRels["root"] = <<Rel(RelType3DModel, "a")>>
    /\ nonRootModels = <<"a">>
    /\ DOMAIN model.Childs = {"a"}
    /\ model.Childs["a"].Relationships = <<Rel(RelTypeOther, "t")>>
    /\ model.Attachments = <<[Path |-> "t"]>>

----------------------------------------------------------------------------
(* One decode task per auxiliary part (Spec) *)

\* the warnings of part f among ws
WarningsOf(ws, f) == SelectSeq(ws, LAMBDA w : w.path = f)

\* C25: exactly one decode task is spawned per distinct auxiliary part, also
\* when the root part has several model-type relationships to the same
\* target: no part is decoded twice, and the warnings of each part are
\* merged exactly once.
C25_OneTaskPerPart ==
    /\ (pc \notin {"init", "spawn"} /\ rootFile # "") =>
          /\ Len(task) = Cardinality(Elems(nonRootModels))
          /\ \A i, j \in DOMAIN task : i # j => nonRootModels[i] # nonRootModels[j]
    /\ (pc = "rootopen" /\ ~callerDone /\ AllAuxDecode) =>
          \A f \in Elems(nonRootModels) :
              WarningsOf(dWarnings, f) = decodeModelFile(pkg, f, FALSE, strict).Warnings

----------------------------------------------------------------------------
(* The model element: modelDecoder of decoder.go *)

\* most attributes of a model element
MaxModelAttrs == 2

nsXML == "xml"
attrXmlns == "xmlns"

\* an attribute of an element: encoding.Attr
XAttr(space, local, value) == [Space |-> space, Local |-> local, Value |-> value]

\* newUnits: the unit named, and whether there is such a unit
newUnits(v) == IF v \in {"millimeter", "inch"} THEN [u |-> v, ok |-> TRUE]
               ELSE [u |-> "", ok |-> FALSE]

\* the fields of the model the model element can set; Specs maps a
\* namespace to the spec registered or declared for it
NewModelHead ==
    [Units |-> "millimeter", Thumbnail |-> "", Language |-> "",
     Specs |-> ("prod" :> [Local |-> "", Required |-> FALSE, Known |-> TRUE])]

\* modelDecoder.noCoreAttribute on [m, err]; no extension decoder is
\* registered for the attributes of other namespaces
noCoreAttribute(o, a) ==
    CASE a.Space = nsXML ->
            IF a.Local = "lang" THEN [o EXCEPT !.m.Language = a.Value] ELSE o
      [] a.Space = attrXmlns ->
            IF a.Value \in DOMAIN o.m.Specs
            THEN [o EXCEPT !.m.Specs[a.Value].Local = a.Local]
            ELSE [o EXCEPT !.m.Specs = (a.Value :> [Local |-> a.Local, Required |-> FALSE,
                                                    Known |-> FALSE]) @@ @]
      [] OTHER -> o

\* the loop of modelDecoder.Start over attrs; o is [m, err, requiredExts]
RECURSIVE modelAttrs(_, _, _)
modelAttrs(o, attrs, k) ==
    IF k > Len(attrs) THEN o
    ELSE LET a == attrs[k] IN
         modelAttrs(
             IF a.Space = ""
             THEN CASE a.Local = "unit" ->
                          [o EXCEPT !.m.Units = newUnits(a.Value).u,
                                    !.err = IF newUnits(a.Value).ok THEN @
                                            ELSE Append(@, [attr |-> "unit", required |-> FALSE])]
                    [] a.Local = "thumbnail" -> [o EXCEPT !.m.Thumbnail = a.Value]
                    [] a.Local = "requiredextensions" -> [o EXCEPT !.requiredExts = a.Value]
                    [] OTHER -> o
             ELSE noCoreAttribute(o, a),
             attrs, k + 1)

\* the namespaces of the specs, and the orders in which a loop over the map
\* d.model.Specs may visit them
SpecSpaces == {"prod", "other"}
SpecOrders == {<<"prod", "other">>, <<"other", "prod">>}

\* most names in a requiredextensions attribute
MaxRequired == 2

\* the inner loop of modelDecoder.Start for ext: the first spec visited that
\* has the local ext is marked required
markFirst(specs, ext, order) ==
    LET hits == {j \in 1..Len(order) :
                    order[j] \in DOMAIN specs /\ specs[order[j]].Local = ext}
    IN  IF hits = {} THEN specs
        ELSE LET j == CHOOSE i \in hits : \A h \in hits : i <= h
             IN  [specs EXCEPT ![order[j]].Required = TRUE]

\* the loop of modelDecoder.Start over requiredExts; orders[k] is the order
\* in which the specs are visited for the k-th name
RECURSIVE markRequired(_, _, _, _)
markRequired(specs, requiredExts, orders, k) ==
    IF k > Len(requiredExts) THEN specs
    ELSE markRequired(markFirst(specs, requiredExts[k], orders[k]),
                      requiredExts, orders, k + 1)

\* Start with every part treated as the root part
modelStartAnyPart(isRoot, m, attrs, orders) ==
    LET o == modelAttrs([m |-> m, err |-> <<>>, requiredExts |-> <<>>], attrs, 1) IN
    [m |-> [o.m EXCEPT !.Specs = markRequired(@, o.requiredExts, orders, 1)],
     err |-> o.err]

\* modelDecoder.Start: [m, err]
modelStart(isRoot, m, attrs, orders) ==
    IF ~isRoot THEN [m |-> m, err |-> <<>>]
    ELSE LET o == modelAttrs([m |-> m, err |-> <<>>, requiredExts |-> <<>>], attrs, 1) IN
         [m |-> [o.m EXCEPT !.Specs = markRequired(@, o.requiredExts, orders, 1)],
          err |-> o.err]

\* the model of a caller that registered the spec of "prod" under the
\* prefix p
PrefixedModelHead == [NewModelHead EXCEPT !.Specs["prod"].Local = "p"]

\* the attributes a model element may carry
ModelAttrChoices ==
    {XAttr("", "unit", "inch"), XAttr("", "unit", "furlong"),
     XAttr("", "thumbnail", "/thumb.png"),
     XAttr("", "requiredextensions", <<"p", "x">>), XAttr(attrXmlns, "p", "other"),
     XAttr(nsXML, "lang", "en"), XAttr(attrXmlns, "p", "prod"),
     XAttr(attrXmlns, "u", "other"), XAttr(ForeignSpace, "x", "1")}

\* the child elements a model element may hold
ModelChildNames ==
    {CoreName("resources"), CoreName("build"), CoreName("metadata"),
     CoreName("object"), Name(ForeignSpace, "ext")}

InitModelEl ==
    /\ InitUnit
    /\ call \in {[fn |-> "modelDecoder", isRoot |-> r, attrs |-> a,
                  m |-> h, m0 |-> h, err |-> <<>>, started |-> FALSE,
                  asked |-> ZeroName, child |-> NoDecoder] :
                    r \in BOOLEAN, a \in SeqsUpTo(ModelAttrChoices, MaxModelAttrs),
                    h \in {NewModelHead, PrefixedModelHead}}

\* topLevelDecoder.Child offers a modelDecoder with the part's isRoot, and
\* decodeModelFile runs its Start
CallModelStart ==
    /\ pc = "call" /\ call.fn = "modelDecoder" /\ ~call.started
    /\ \E orders \in [1..MaxRequired -> SpecOrders] :
          LET o == modelStart(call.isRoot, call.m, call.attrs, orders) IN
          call' = [call EXCEPT !.started = TRUE, !.m = o.m, !.err = o.err]
    /\ UNCHANGED UnitFrame

\* decodeModelFile reads a child element of the model element
CallModelChild ==
    /\ pc = "call" /\ call.fn = "modelDecoder" /\ call.started
    /\ call.asked = ZeroName
    /\ \E n \in ModelChildNames :
          call' = [call EXCEPT !.asked = n,
                               !.child = Child(Dec("model", 0), [name |-> n, id |-> 0],
                                               call.isRoot)]
    /\ UNCHANGED UnitFrame

NextModelEl == CallModelStart \/ CallModelChild

SpecModelEl == InitModelEl /\ [][NextModelEl]_vars

\* C26: decoding the model element of an auxiliary part leaves the model's
\* units, thumbnail, language, spec table and required flags as they were,
\* whatever attributes the element carries, and reports no error; for a
\* build or metadata child element no decoder is offered, so that the
\* subtree is skipped and the build items and the model's metadata stay
\* untouched; the one core child decoded is the resources element.
C26_AuxLeavesModelAlone ==
    (call # Idle /\ call.fn = "modelDecoder" /\ ~call.isRoot) =>
        /\ call.m = call.m0
        /\ call.err = <<>>
        /\ call.asked \in {CoreName("build"), CoreName("metadata")} => call.child = NoDecoder
        /\ call.child # NoDecoder =>
              (call.asked = CoreName("resources") /\ call.child.kind = "resources")

\* the model element of an auxiliary part declares a prefix for the
\* production namespace and requires it; the part holds a build element
C26_Witness ==
    /\ call # Idle /\ call.fn = "modelDecoder" /\ ~call.isRoot /\ call.started
    /\ call.attrs = <<XAttr(attrXmlns, "p", "prod"),
                      XAttr("", "requiredextensions", <<"p", "x">>)>>
    /\ call.m.Specs["prod"] = [Local |-> "", Required |-> FALSE, Known |-> TRUE]
    /\ call.asked = CoreName("build") /\ call.child = NoDecoder

----------------------------------------------------------------------------
(* Extension decoders: d.ctx.extensionDecoder *)

OtherSpace == "other"

\* the namespaces an extension decoder may be registered for
Spaces == {ForeignSpace, OtherSpace}

\* the decoder an extension offers for an element of its namespace
ExtDecoder(space) == [kind |-> "ext", id |-> 0, space |-> space]

\* the Child method of every element decoder, with extension decoders
\* registered for the namespaces of ext: the decoders of model, resources and
\* mesh look the namespace of a foreign element up, the others do not
ChildWithExt(d, tok, isRoot, ext) ==
    IF /\ tok.name.Space # Namespace
       /\ tok.name.Space \in ext
       /\ d.kind \in {"model", "resources", "mesh"}
    THEN ExtDecoder(tok.name.Space)
    ELSE Child(d, tok, isRoot)

\* what the Start method of a decoder does with the attribute local of a
\* foreign namespace: hands it to the extension, parses it as one of its
\* own, or leaves it alone; the decoder of a model element reads no
\* attribute of a part that is not the root, and the one of a base material
\* tells its attributes by the local name alone
foreignAttr(kind, isRoot, space, local, ext) ==
    CASE kind = "model" ->
            IF isRoot /\ space \in ext THEN "delegated" ELSE "ignored"
      [] kind \in {"build", "item", "object", "component"} ->
            IF space \in ext THEN "delegated" ELSE "ignored"
      [] kind \in {"vertex", "triangle"} -> "parsed"
      [] kind = "base" ->
            IF local \in {"name", "displaycolor"} THEN "parsed" ELSE "ignored"
      [] OTHER -> "ignored"

\* the element decoders of the core
DecoderKinds ==
    {"model", "resources", "build", "item", "metadatagroup", "basematerials", "base",
     "object", "mesh", "vertices", "vertex", "triangles", "triangle", "components",
     "component"}

InitExt ==
    /\ InitUnit
    /\ call \in {[fn |-> "extension", kind |-> k, ext |-> x, isRoot |-> r,
                  asked |-> ZeroName, child |-> NoDecoder,
                  attr |-> ZeroName, outcome |-> ""] :
                    k \in DecoderKinds, x \in SUBSET Spaces, r \in BOOLEAN}

\* decodeModelFile reads a start element in a foreign namespace
CallChildForeign ==
    /\ pc = "call" /\ call.fn = "extension" /\ call.asked = ZeroName
    /\ \E sp \in Spaces :
          call' = [call EXCEPT !.asked = Name(sp, "ext"),
                               !.child = ChildWithExt(Dec(call.kind, 0),
                                                      [name |-> Name(sp, "ext"), id |-> 0],
                                                      call.isRoot, call.ext)]
    /\ UNCHANGED UnitFrame

\* Start meets an attribute of a foreign namespace
CallStartForeign ==
    /\ pc = "call" /\ call.fn = "extension" /\ call.attr = ZeroName
    /\ \E sp \in Spaces, local \in {"x", "displaycolor"} :
          call' = [call EXCEPT !.attr = Name(sp, local),
                               !.outcome = foreignAttr(call.kind, call.isRoot, sp, local,
                                                       call.ext)]
    /\ UNCHANGED UnitFrame

NextExt == CallChildForeign \/ CallStartForeign

SpecExt == InitExt /\ [][NextExt]_vars

\* the decoders C27 speaks of
DelegatingKinds == {"model", "resources", "object", "mesh", "components", "build", "item"}

\* C27: the decoder of a model, resources, object, mesh, components, build or
\* item element that meets a child element in a foreign namespace offers the
\* decoder of the extension registered for that namespace, and no decoder
\* when none is registered; an attribute of a foreign namespace with no
\* registered extension is ignored.
C27_ForeignDelegated ==
    (call # Idle /\ call.fn = "extension" /\ call.kind \in DelegatingKinds) =>
        /\ call.asked # ZeroName =>
              call.child = (IF call.asked.Space \in call.ext
                            THEN ExtDecoder(call.asked.Space) ELSE NoDecoder)
        /\ (call.attr # ZeroName /\ call.attr.Space \notin call.ext) =>
              call.outcome = "ignored"

----------------------------------------------------------------------------
(* Indexed errors: the Wrap methods of the element decoders *)

\* an error wrapped without an index
NoIndex == 0 - 1

\* specerr.Wrap(errs, element); nil when errs is nil
WrapErr(errs, of) ==
    IF errs = <<>> THEN <<>> ELSE <<[of |-> of, index |-> NoIndex, errs |-> errs]>>

\* what a call of Wrap ends with: the error returned, or a panic
Returned(errs) == [panic |-> FALSE, errs |-> errs]
NilDereference == [panic |-> TRUE, errs |-> <<>>]

\* the Wrap method of the decoder of kind, each handing the error on to its
\* ew. resourceDecoder.Child, objectDecoder.Child and meshDecoder.Child set the
\* ew of the decoder they offer; buildDecoder.Child leaves the ew of the
\* buildItemDecoder nil, so d.ew.Wrap in buildItemDecoder.Wrap panics
RECURSIVE WrapBy(_, _, _)
WrapBy(kind, e, errs) ==
    CASE kind = "resources" -> Returned(WrapErr(errs, "resources"))
      [] kind = "build" -> Returned(WrapErr(errs, "build"))
      [] kind = "object" ->
            WrapBy("resources", e, WrapIndex(errs, "object", Len(e.objects)))
      [] kind = "basematerials" ->
            WrapBy("resources", e, WrapIndex(errs, "basematerials", Len(e.assets)))
      [] kind = "mesh" -> WrapBy("object", e, WrapErr(errs, "mesh"))
      [] kind \in {"vertices", "triangles"} -> WrapBy("mesh", e, errs)
      [] kind = "components" -> WrapBy("object", e, errs)
      [] kind = "item" -> NilDereference
      [] OTHER -> Returned(errs)

\* the error reported for the start element just read: the one its Start
\* returned, wrapped by the decoder of the parent element
Reported(e) ==
    IF e.err = <<>> \/ Len(e.stack) < 2 THEN Returned(<<>>)
    ELSE WrapBy(e.stack[Len(e.stack) - 1], e, e.err)

\* the indexed elements on the way from the outermost wrap of errs down
RECURSIVE IndexedPath(_)
IndexedPath(errs) ==
    IF errs = <<>> \/ ~("of" \in DOMAIN errs[1]) THEN <<>>
    ELSE (IF errs[1].index = NoIndex THEN <<>>
          ELSE <<[of |-> errs[1].of, index |-> errs[1].index]>>) \o IndexedPath(errs[1].errs)

\* the collection the elements of kind are appended to
CollectionOf(kind, e) ==
    CASE kind = "object" -> e.objects
      [] kind = "basematerials" -> e.assets
      [] kind = "item" -> e.items
      [] kind = "vertex" -> e.obj.Mesh.Vertices
      [] kind = "triangle" -> e.obj.Mesh.Triangles
      [] kind = "component" -> e.obj.Components.list
      [] kind = "base" -> e.bm.Materials

\* the elements appended by their End, and those appended by their Start
AppendedAtEnd == {"object", "basematerials", "item"}
AppendedAtStart == {"vertex", "triangle", "component", "base"}

\* the decoders with a Wrap method
WrapperKinds == {"resources", "build", "object", "basematerials", "mesh", "vertices",
                 "triangles", "components", "item"}

\* the error of a descendant handed to Wrap
DescendantErr == <<[attr |-> "x", required |-> TRUE]>>

\* currentDecoder.Wrap(err): the decoder of the element that is open wraps an
\* error on behalf of a descendant; the decode is followed no further
CallWrap ==
    /\ pc = "elements" /\ el # Idle /\ Len(el.stack) > 1
    /\ CurrentKind \in WrapperKinds
    /\ call' = [fn |-> "Wrap", kind |-> CurrentKind,
                out |-> WrapBy(CurrentKind, el, DescendantErr)]
    /\ pc' = "wrapped"
    /\ UNCHANGED <<pkg, strict, dWarnings, nonRootModels, model, rootFile, ret,
                   callerDone, cancelAt, derivedDone, err, files, task, rootSc, el>>

NextWrap == NextElem \/ CallWrap

SpecWrap == InitElem /\ [][NextWrap]_vars

\* the element of kind is open
IsOpen(kind, e) == \E j \in 2..Len(e.stack) : e.stack[j] = kind

----------------------------------------------------------------------------
(* The Start of one element, with any attribute *)

\* the attributes an element defines, and those of them it must carry
Defines(name) ==
    CASE name = "object" -> {"id", "type", "thumbnail", "name", "partnumber", "pid", "pindex"}
      [] name = "vertex" -> {"x", "y", "z"}
      [] name = "triangle" -> {"v1", "v2", "v3", "pid", "p1", "p2", "p3"}
      [] name = "component" -> {"objectid", "transform"}
      [] name = "basematerials" -> {"id"}
      [] name = "base" -> {"name", "displaycolor"}
      [] name = "item" -> {"objectid", "partnumber", "transform"}
      [] OTHER -> {}

Mandatory(name) ==
    CASE name = "object" -> {"id"}
      [] name = "vertex" -> {"x", "y", "z"}
      [] name = "triangle" -> {"v1", "v2", "v3"}
      [] name = "component" -> {"objectid"}
      [] name = "basematerials" -> {"id"}
      [] name = "base" -> {"name", "displaycolor"}
      [] name = "item" -> {"objectid"}
      [] OTHER -> {}

\* the elements whose Start reads attributes
AttrElems == {"object", "vertex", "triangle", "component", "basematerials", "base", "item"}

\* an attribute no core element defines, with a number or with text
UndefinedAttrs == {<<>>, <<Attr("label", Num(1))>>, <<Attr("label", Malformed)>>}

\* the attributes that follow those of AttrsOf: an undefined one, the type
\* of an object, a second id of a base-materials group
MoreAttrs(name) ==
    UndefinedAttrs
      \cup (IF name = "object"
            THEN {<<Attr("type", Tok("support"))>>, <<Attr("type", Tok("thing"))>>,
                  <<Attr("type", Num(1))>>}
            ELSE {})
      \cup (IF name = "basematerials"
            THEN {<<Attr("id", Num(4))>>, <<Attr("id", Malformed)>>}
            ELSE {})

\* the decoders when the start element of an element named name is read
BeforeStart(name) ==
    [NewElem EXCEPT !.stack = <<"top", name>>,
                    !.obj = [ZeroObject EXCEPT !.Mesh = NewMesh, !.Components = NoComponents]]

InitAttr == InitElem

\* currentDecoder.Start(tp.Attr) for one element
CallStart ==
    /\ pc = "elements" /\ el = NewElem
    /\ \E name \in AttrElems : \E attrs \in AttrsOf(name), more \in MoreAttrs(name) :
          LET o == ElemStartHook(name,
                                 [BeforeStart(name) EXCEPT
                                     !.starts = 1,
                                     !.tok = [k |-> "start", name |-> name,
                                              attrs |-> attrs \o more]],
                                 attrs \o more)
          IN  el' = [o.e EXCEPT !.err = o.errs]
    /\ UNCHANGED ElemFrame

\* the numeric attributes of an element
NumericAttrs(name) ==
    CASE name = "object" -> {"id", "pid", "pindex"}
      [] name = "triangle" -> {"v1", "v2", "v3", "pid", "p1", "p2", "p3"}
      [] name \in {"component", "item"} -> {"objectid"}
      [] name = "basematerials" -> {"id"}
      [] name = "vertex" -> {"x", "y", "z"}
      [] OTHER -> {}

\* 0, 2^24-1, 2^24, 2^32-1, 2^32 and text
EdgeValues ==
    {Num(0), Num(MaxUint24), Num(MaxUint24 + 1), Big(255, MaxUint24), Big(256, 0), Malformed}

\* a coordinate of a vertex also takes 2^24+1 and 2^31-1, which no float32 holds
EdgeValuesOf(name) ==
    IF name = "vertex" THEN EdgeValues \cup {Num(MaxUint24 + 2), Num(127 * (MaxUint24 + 1) + MaxUint24)}
    ELSE EdgeValues

\* currentDecoder.Start(tp.Attr) for an element with one numeric attribute
CallStartNumeric ==
    /\ pc = "elements" /\ el = NewElem
    /\ \E name \in AttrElems : \E n \in NumericAttrs(name), v \in EdgeValuesOf(name) :
          LET o == ElemStartHook(name,
                                 [BeforeStart(name) EXCEPT
                                     !.starts = 1,
                                     !.tok = [k |-> "start", name |-> name,
                                              attrs |-> <<Attr(n, v)>>]],
                                 <<Attr(n, v)>>)
          IN  el' = [o.e EXCEPT !.err = o.errs]
    /\ UNCHANGED ElemFrame

NextAttr == CallStart \/ CallStartNumeric

SpecAttr == InitAttr /\ [][NextAttr]_vars

\* the parse-attribute errors the Start just run returned
ParseAttrErrors == IF el.err = <<>> THEN <<>> ELSE el.err[1].errs

\* C29: a parse-attribute error names an attribute the element defines,
\* whose value is invalid, and is tagged mandatory exactly when the
\* attribute is mandatory for the element (v1, v2, v3 of a triangle, not its
\* pid, p1, p2, p3; x, y, z of a vertex); an attribute the element does not
\* define produces no error.
C29_OnlyDefinedAttrsFail ==
    (el # Idle /\ el.tok.k = "start" /\ el.tok.name \in AttrElems) =>
        \A k \in 1..Len(ParseAttrErrors) :
            LET r == ParseAttrErrors[k] IN
            /\ r.attr \in Defines(el.tok.name)
            /\ \E j \in 1..Len(el.tok.attrs) :
                  /\ el.tok.attrs[j].name = r.attr
                  /\ IF r.attr = "type" THEN ~newObjectType(el.tok.attrs[j].value).ok
                     ELSE el.tok.attrs[j].value.t # "num"
            /\ r.required = (r.attr \in Mandatory(el.tok.name))

----------------------------------------------------------------------------
(* Numeric attributes at the ends of their ranges *)

\* the identifiers, 32 bits wide, and the indices of a triangle, 24 bits wide
IsID(name, n) ==
    \/ name = "object" /\ n \in {"id", "pid"}
    \/ name \in {"component", "item"} /\ n = "objectid"
    \/ name = "basematerials" /\ n = "id"
    \/ name = "triangle" /\ n = "pid"

IsTriangleIndex(name, n) == name = "triangle" /\ n \in {"v1", "v2", "v3", "p1", "p2", "p3"}

\* the number v is written with at most bits bits
Within(v, bits) ==
    \/ v.t = "num" /\ (bits = 32 \/ v.v <= MaxUint24)
    \/ v.t = "big" /\ bits = 32 /\ v.hi < 256

\* the value the element just decoded holds for its attribute n
Stored(e, n) ==
    CASE e.tok.name = "object" ->
            (IF n = "id" THEN e.obj.ID ELSE IF n = "pid" THEN e.obj.PID ELSE e.obj.PIndex)
      [] e.tok.name = "item" -> e.item.ObjectID
      [] e.tok.name = "basematerials" -> e.bm.ID
      [] e.tok.name = "component" ->
            e.obj.Components.list[Len(e.obj.Components.list)].ObjectID
      [] e.tok.name = "triangle" ->
            e.obj.Mesh.Triangles[Len(e.obj.Mesh.Triangles)][n]

\* C30: an identifier attribute (id and pid of an object, objectid of a
\* build item or component, id of a base-materials group, pid of a
\* triangle) takes every number from 0 to 2^32-1, and v1, v2, v3, p1, p2,
\* p3 of a triangle exactly the numbers from 0 to 2^24-1: such a value is
\* stored as written and raises no error; any other value raises a
\* parse-attribute error for the attribute.
C30_NumericRanges ==
    (el # Idle /\ el.tok.k = "start" /\ Len(el.tok.attrs) = 1
       /\ (IsID(el.tok.name, el.tok.attrs[1].name)
             \/ IsTriangleIndex(el.tok.name, el.tok.attrs[1].name))) =>
        LET a == el.tok.attrs[1]
            bits == IF IsID(el.tok.name, a.name) THEN 32 ELSE 24
            fails == \E k \in 1..Len(ParseAttrErrors) : ParseAttrErrors[k].attr = a.name
        IN  /\ fails = ~Within(a.value, bits)
            /\ ~fails => Stored(el, a.name) = (IF a.value.t = "big" THEN a.value ELSE a.value.v)

----------------------------------------------------------------------------
(* The spec table after the root model element (SpecModelEl) *)

\* the xmlns declarations among attrs, and the names listed by its
\* requiredextensions attributes
Declares(attrs, ns) ==
    \E k \in 1..Len(attrs) : attrs[k].Space = attrXmlns /\ attrs[k].Value = ns

LastPrefix(attrs, ns) ==
    attrs[CHOOSE k \in 1..Len(attrs) :
             /\ attrs[k].Space = attrXmlns /\ attrs[k].Value = ns
             /\ \A j \in (k + 1)..Len(attrs) :
                   ~(attrs[j].Space = attrXmlns /\ attrs[j].Value = ns)].Local

Listed(attrs) ==
    {x \in {"p", "u", "x"} :
        \E k \in 1..Len(attrs) :
            /\ attrs[k].Space = "" /\ attrs[k].Local = "requiredextensions"
            /\ \E j \in 1..Len(attrs[k].Value) : attrs[k].Value[j] = x}

\* C31: once the attributes of the root model element are processed, the
\* spec table holds one spec for each namespace registered or declared: a
\* declaration for a registered namespace sets the local prefix of its
\* spec, a declaration for another namespace adds one placeholder with the
\* namespace and the prefix, no declaration raises an error, and every spec
\* whose local prefix is listed in requiredextensions is marked required,
\* wherever the requiredextensions attribute stands; a listed name that no
\* spec has raises no error.
C31_SpecTable ==
    (call # Idle /\ call.fn = "modelDecoder" /\ call.isRoot /\ call.started) =>
        /\ DOMAIN call.m.Specs =
              DOMAIN call.m0.Specs \cup {ns \in SpecSpaces : Declares(call.attrs, ns)}
        /\ \A ns \in DOMAIN call.m.Specs :
              /\ call.m.Specs[ns].Known = (ns \in DOMAIN call.m0.Specs)
              /\ call.m.Specs[ns].Local =
                    IF Declares(call.attrs, ns) THEN LastPrefix(call.attrs, ns)
                    ELSE call.m0.Specs[ns].Local
        /\ \A k \in 1..Len(call.err) : call.err[k].attr = "unit"
        /\ \A ns \in DOMAIN call.m.Specs :
              call.m.Specs[ns].Local \in Listed(call.attrs) => call.m.Specs[ns].Required

----------------------------------------------------------------------------
(* Extensions.encode of part_003 *)

\* what Marshal3MF of an element of the bag returns: nil or an error
MarshalResults == {"nil", "e1", "e2"}

InitEncodeBag ==
    /\ InitUnit
    /\ call \in {[fn |-> "encode", bag |-> b, i |-> 1, invoked |-> <<>>,
                  returned |-> FALSE, ret |-> "nil"] :
                    b \in SeqsUpTo(MarshalResults, MaxBag)}

\* one turn of the loop of Extensions.encode: Marshal3MF of the next
\* element runs, and encode returns its result when that is nil
EncodeNext ==
    /\ pc = "call" /\ call.fn = "encode" /\ ~call.returned
    /\ call.i <= Len(call.bag)
    /\ call' = [call EXCEPT !.invoked = Append(@, call.i),
                            !.i = @ + 1,
                            !.returned = (call.bag[call.i] = "nil"),
                            !.ret = IF call.bag[call.i] = "nil" THEN call.bag[call.i] ELSE @]
    /\ UNCHANGED UnitFrame

\* the loop of Extensions.encode is over: nil is returned
EncodeReturn ==
    /\ pc = "call" /\ call.fn = "encode" /\ ~call.returned
    /\ call.i > Len(call.bag)
    /\ call' = [call EXCEPT !.returned = TRUE, !.ret = "nil"]
    /\ UNCHANGED UnitFrame

NextEncodeBag == EncodeNext \/ EncodeReturn

SpecEncodeBag == InitEncodeBag /\ [][NextEncodeBag]_vars

\* C32: when Extensions.encode returns, Marshal3MF has run on every element
\* of the bag, in order, and the value returned is the first error one of
\* them reported, nil when none did.
C32_EncodeReturnsFirstError ==
    (call # Idle /\ call.fn = "encode" /\ call.returned) =>
        /\ call.invoked = [k \in 1..Len(call.bag) |-> k]
        /\ call.ret =
              IF \E k \in 1..Len(call.bag) : call.bag[k] # "nil"
              THEN call.bag[CHOOSE k \in 1..Len(call.bag) :
                               /\ call.bag[k] # "nil"
                               /\ \A j \in 1..(k - 1) : call.bag[j] = "nil"]
              ELSE "nil"

====
